---- MODULE Spec2Model ----
(***************************************************************************)
(* Media-processing orchestration of MRContent: the task tracker, the      *)
(* dispatcher (ProcessMediaForContent), the result ingestor                *)
(* (processMediaResult) and the media merger (updateMediaField,            *)
(* mergeMediaByKey), modelled from controllers/*.go and main.go.           *)
(*                                                                         *)
(* Strings that the code only compares are TLA+ strings.  Media keys are   *)
(* sequences of tokens ("original_alpha" is <<"original", "_alpha">>), so  *)
(* that strings.HasPrefix is the prefix relation on sequences.             *)
(*                                                                         *)
(* Environment: the message-bus connection exists (GetNATS returns it) and *)
(* the document store answers every FindOne and UpdateOne; a publish may   *)
(* fail.  Each store call and each locked section of the tracker is one    *)
(* step, so that calls of concurrent goroutines interleave between them.   *)
(***************************************************************************)
EXTENDS Integers, Sequences, FiniteSets, TLC

\* ------------------------------------------------------------------ bounds
MaxMedia == 2
MaxDeliveries == 3
MaxUpdates == 1
MaxMergeLen == 2
MaxReplay == 3
MaxQueries == 2
MaxDispatchMedia == 3
MaxCalls == 2

\* --------------------------------------------------------------- constants
\* the number of compensating TrackProcessingComplete calls (main.go:258)
CompensationCalls == 3

\* ---------------------------------------------------------------- strings
HasPrefix(s, p) == Len(s) >= Len(p) /\ SubSeq(s, 1, Len(p)) = p

KOriginal == <<"original">>
KOriginal2 == <<"original", "_2">>
KOriginalAlpha == <<"original", "_alpha">>
KMask == <<"mask">>
KCompressed == <<"compressed">>
KHls == <<"hls">>
KDash == <<"dash">>
KAlpha == <<"alpha">>
KStitched == <<"stitched">>
KProcessed == <<"processed">>

Media(k, v) == [k |-> k, v |-> v]

\* ------------------------------------------------------- Media Classifier
IsOriginal(m) == HasPrefix(m.k, KOriginal) /\ m.v # ""

IsAlphaVideo(m) == m.k = KMask \/ m.k = KOriginalAlpha

\* the number of entries a counting loop has selected
Count(hits) == Len(hits)

\* variant: one task for each original video instead of two
CountMediaTasksOncePerVideo(content) ==
    LET imgCount == Count(SelectSeq(content.images, IsOriginal))
        videoCount == Count(SelectSeq(content.videos, IsOriginal))
        alphaVideoCount == Count(SelectSeq(content.videos, IsAlphaVideo))
    IN  imgCount
        + (IF videoCount > 0
           THEN (IF alphaVideoCount > 0 THEN 1 ELSE 0) + videoCount
           ELSE 0)

\* variant: no stitching task for an alpha video
CountMediaTasksNoStitch(content) ==
    LET imgCount == Count(SelectSeq(content.images, IsOriginal))
        videoCount == Count(SelectSeq(content.videos, IsOriginal))
    IN  imgCount + (IF videoCount > 0 THEN videoCount * 2 ELSE 0)

\* variant: an original counts whether or not it has a URL
CountMediaTasksAnyUrl(content) ==
    LET HasOriginalKey(m) == HasPrefix(m.k, KOriginal)
        imgCount == Count(SelectSeq(content.images, HasOriginalKey))
        videoCount == Count(SelectSeq(content.videos, HasOriginalKey))
        alphaVideoCount == Count(SelectSeq(content.videos, IsAlphaVideo))
    IN  imgCount
        + (IF videoCount > 0
           THEN (IF alphaVideoCount > 0 THEN 1 ELSE 0) + videoCount * 2
           ELSE 0)

\* variant: one task for each original 3D object
CountMediaTasksWithObjects(content) ==
    LET imgCount == Count(SelectSeq(content.images, IsOriginal))
        videoCount == Count(SelectSeq(content.videos, IsOriginal))
        alphaVideoCount == Count(SelectSeq(content.videos, IsAlphaVideo))
    IN  imgCount
        + (IF videoCount > 0
           THEN (IF alphaVideoCount > 0 THEN 1 ELSE 0) + videoCount * 2
           ELSE 0)
        + Count(SelectSeq(content.objects_3d, IsOriginal))

CountMediaTasks(content) ==
    LET imgCount == Count(SelectSeq(content.images, IsOriginal))
        videoCount == Count(SelectSeq(content.videos, IsOriginal))
        alphaVideoCount == Count(SelectSeq(content.videos, IsAlphaVideo))
    IN  imgCount
        + (IF videoCount > 0
           THEN (IF alphaVideoCount > 0 THEN 1 ELSE 0) + videoCount * 2
           ELSE 0)

\* ------------------------------------------------------------ Media Merger
\* the first position of key in media, 0 when there is none
FirstIndex(media, key) ==
    IF \E i \in 1..Len(media) : media[i].k = key
    THEN CHOOSE i \in 1..Len(media) :
            media[i].k = key /\ \A j \in 1..(i - 1) : media[j].k # key
    ELSE 0

updateMediaField(existingMedia, key, value) ==
    LET i == FirstIndex(existingMedia, key)
    IN  IF i > 0
        THEN [existingMedia EXCEPT ![i].v = value]
        ELSE Append(existingMedia, Media(key, value))

KeysOf(media) == {media[i].k : i \in 1..Len(media)}

\* the value the last entry with key k gives it (a Go map assignment in list order)
LastValue(media, k) ==
    media[CHOOSE i \in 1..Len(media) :
            media[i].k = k /\ \A j \in (i + 1)..Len(media) : media[j].k # k].v

\* mediaMap of mergeMediaByKey: existing entries first, then the new ones
MergedMap(existingMedia, newMedia) ==
    [k \in KeysOf(existingMedia) \cup KeysOf(newMedia) |->
        IF k \in KeysOf(newMedia) THEN LastValue(newMedia, k)
        ELSE LastValue(existingMedia, k)]

\* every sequence that lists each key of map m once (Go's map iteration order
\* is unspecified)
MapListings(m) ==
    {s \in [1..Cardinality(DOMAIN m) -> {Media(k, m[k]) : k \in DOMAIN m}] :
        \A i, j \in 1..Cardinality(DOMAIN m) : i # j => s[i].k # s[j].k}

\* variant: on a key of both lists the existing value is kept
mergeMediaByKeyExistingWins(existingMedia, newMedia) ==
    IF Len(newMedia) = 0 THEN {existingMedia}
    ELSE IF existingMedia = <<>> THEN {newMedia}
    ELSE MapListings(MergedMap(newMedia, existingMedia))

\* the set of lists mergeMediaByKey may return (a nil slice is the empty list)
mergeMediaByKey(existingMedia, newMedia) ==
    IF Len(newMedia) = 0 THEN {existingMedia}
    ELSE IF existingMedia = <<>> THEN {newMedia}
    ELSE MapListings(MergedMap(existingMedia, newMedia))

\* ------------------------------------------------------------ Task Tracker
\* mediaTracker.processingTasks[contentID] = taskCount
TrackerSet(t, contentID, taskCount) ==
    [i \in DOMAIN t \cup {contentID} |-> IF i = contentID THEN taskCount ELSE t[i]]

\* variant: removing one entry empties the table
TrackerDeleteAll(t, contentID) == <<>>

\* delete(mediaTracker.processingTasks, contentID)
TrackerDelete(t, contentID) == [i \in DOMAIN t \ {contentID} |-> t[i]]

\* variant: a second start adds to the count of the first
StartRegisterAdding(t, contentID, taskCount) ==
    IF taskCount <= 0 THEN t
    ELSE IF contentID \in DOMAIN t THEN TrackerSet(t, contentID, t[contentID] + taskCount)
    ELSE TrackerSet(t, contentID, taskCount)

\* the locked section of TrackProcessingStart, with its taskCount <= 0 return
StartRegister(t, contentID, taskCount) ==
    IF taskCount <= 0 THEN t ELSE TrackerSet(t, contentID, taskCount)

\* variant: the entry is kept at zero and removed one completion later
CompleteOutcomeLate(t, contentID) ==
    IF contentID \notin DOMAIN t THEN "untracked"
    ELSE IF t[contentID] - 1 < 0 THEN "finished"
    ELSE "remaining"

\* variant: a completion for an id without entry counts as the last one
CompleteOutcomeUntrackedFinishes(t, contentID) ==
    IF contentID \notin DOMAIN t THEN "finished"
    ELSE IF t[contentID] - 1 <= 0 THEN "finished"
    ELSE "remaining"

\* variant: the call that leaves one task also takes the entry for finished
CompleteOutcomeEarly(t, contentID) ==
    IF contentID \notin DOMAIN t THEN "untracked"
    ELSE IF t[contentID] - 1 <= 1 THEN "finished"
    ELSE "remaining"

\* what the locked section of TrackProcessingComplete finds
CompleteOutcome(t, contentID) ==
    IF contentID \notin DOMAIN t THEN "untracked"
    ELSE IF t[contentID] - 1 <= 0 THEN "finished"
    ELSE "remaining"

\* variant: an entry that reaches zero is kept
CompleteRegisterKeepsZero(t, contentID) ==
    CASE CompleteOutcome(t, contentID) = "untracked" -> t
      [] OTHER -> [t EXCEPT ![contentID] = t[contentID] - 1]

\* variant: the count of an id without entry is decremented from zero
CompleteRegisterFromZero(t, contentID) ==
    CASE CompleteOutcome(t, contentID) = "untracked" -> TrackerSet(t, contentID, 0 - 1)
      [] CompleteOutcome(t, contentID) = "finished" -> TrackerDelete(t, contentID)
      [] OTHER -> [t EXCEPT ![contentID] = t[contentID] - 1]

\* the tracker table after the locked section of TrackProcessingComplete
CompleteRegister(t, contentID) ==
    CASE CompleteOutcome(t, contentID) = "untracked" -> t
      [] CompleteOutcome(t, contentID) = "finished" -> TrackerDelete(t, contentID)
      [] OTHER -> [t EXCEPT ![contentID] = t[contentID] - 1]

\* --------------------------------------------------------- document store
\* variant: the update is filtered on the id alone
StatusWriteUnfiltered(d, contentID, expected, next) ==
    IF contentID \in DOMAIN d
    THEN [d EXCEPT ![contentID].status = next]
    ELSE d

\* collection.UpdateOne(ctx, {_id, status: expected}, {$set: {status: next}})
StatusWrite(d, contentID, expected, next) ==
    IF contentID \in DOMAIN d /\ d[contentID].status = expected
    THEN [d EXCEPT ![contentID].status = next]
    ELSE d

\* primitive.ObjectIDFromHex succeeds on the ids the store hands out
ValidObjectIds == {"c1", "c9"}
IsObjectIDHex(contentID) == contentID \in ValidObjectIds

\* primitive.NewObjectID(): the ids of the records this model creates
RecordIds == {"c1"}

\* ------------------------------------------------------------------- state
VARIABLES
    db,         \* collection oms_mrexperiences: content id -> stored record
    tracker,    \* mediaTracker.processingTasks: content id -> pending tasks
    disp,       \* the ProcessMediaForContent goroutines, in start order, each
                \* with the history of its publish calls (tried) and whether
                \* its TrackProcessingStart returned an error (startErr)
    hand,       \* the processMediaResult invocations (callback or subscriber)
    published,  \* the requests published to the message bus, in order
    ledger,     \* history: per id, the count last registered, the decrements and
                \* the removals of the entry since
    delivered,  \* the results received so far
    updates,    \* the UpdateMRContent requests served so far
    merged,     \* the lists handed to and returned by the media merge functions
    replay,     \* one record under two sequences of the same results
    query,      \* the GetProcessingStatus call in progress and its last reply
    mutex,      \* mediaTracker.mutex: the caller that holds it, 0 when free
    callers     \* the tracker operations in progress, statement by statement

vars == <<db, tracker, disp, hand, published, ledger, delivered, updates, merged, replay, query,
          mutex, callers>>

Handlers == 1..2

Dispatchers == 1..(1 + MaxUpdates)

NoResult == [ContentID |-> "", MediaType |-> "", ProcessingType |-> "",
             ProcessedURL |-> "", HlsURL |-> "", DashURL |-> "",
             Orientation |-> "", HasAlpha |-> FALSE, Success |-> FALSE]

IdleHandler(ret) == [pc |-> "idle", result |-> NoResult, ops |-> {}, ret |-> ret]

\* no merge under study: the service specifications leave merged here
NoMerge == [via |-> "none", existingMedia |-> <<>>, newMedia |-> <<>>,
            once |-> <<>>, twice |-> <<>>, n |-> 0]

InitService ==
    /\ db = <<>>
    /\ tracker = <<>>
    /\ disp = <<>>
    /\ hand = [h \in Handlers |-> IdleHandler("none")]
    /\ published = <<>>
    /\ ledger = <<>>
    /\ delivered = 0
    /\ updates = 0

\* no replay under study
NoReplay == [left |-> <<>>, right |-> <<>>, doneLeft |-> {}, doneRight |-> {},
             nLeft |-> 0, nRight |-> 0]

\* no status query made yet
NoQuery == [pc |-> "idle", id |-> "", status |-> "", remaining |-> 0,
            err |-> FALSE, n |-> 0]

\* the goroutines that call the tracker operations
Callers == 1..2

\* no tracker operation in progress
NoCall == [pc |-> "idle", op |-> "", id |-> "", taskCount |-> 0, path |-> "", n |-> 0]

InitMutex == mutex = 0 /\ callers = [c \in Callers |-> NoCall]

Init ==
    /\ InitService
    /\ merged = NoMerge /\ replay = NoReplay /\ query = NoQuery
    /\ InitMutex

\* ------------------------------------------------------------------ inputs
SeqsUpTo(S, n) == UNION {[1..m -> S] : m \in 0..n}

\* request bodies of CreateMRContent
ImageEntries == {Media(KOriginal, "a"), Media(KOriginal2, "")}
VideoEntries == {Media(KOriginal, "v"), Media(KMask, "m"), Media(KOriginalAlpha, "w")}
ObjectEntries == {Media(KOriginal, "o")}
CreateStatuses == {"", "processing", "processed"}

CreateBodies ==
    {b \in [images : SeqsUpTo(ImageEntries, MaxMedia),
            videos : SeqsUpTo(VideoEntries, MaxMedia),
            objects_3d : SeqsUpTo(ObjectEntries, 1),
            status : CreateStatuses] :
        Len(b.images) + Len(b.videos) + Len(b.objects_3d) <= MaxMedia}

\* request bodies of UpdateMRContent that set the status only
StatusBodies ==
    {[images |-> <<>>, videos |-> <<>>, objects_3d |-> <<>>, status |-> "processed"]}

\* request bodies of UpdateMRContent that add an original image
MediaBodies ==
    {[images |-> <<Media(KOriginal2, "b")>>, videos |-> <<>>, objects_3d |-> <<>>,
      status |-> ""]}

\* request bodies of CreateMRContent for a draft record without 3D objects
DraftBodies == {b \in CreateBodies : b.status = "" /\ b.objects_3d = <<>>}

\* ---------------------------------------------------- CreateMRContent
\* go ProcessMediaForContent(content)
Spawn(content, contentID) ==
    Append(disp, [pc |-> "start", id |-> contentID, content |-> content,
                  i |-> 1, k |-> 0, tried |-> <<>>, startErr |-> FALSE])

CreateMRContent(contentID, images, videos, objects, status) ==
    LET content == [status |-> IF status = "" THEN "draft" ELSE status,
                    images |-> images, videos |-> videos, objects_3d |-> objects,
                    has_alpha |-> FALSE, orientation |-> ""]
        hasMedia == Len(images) > 0 \/ Len(videos) > 0 \/ Len(objects) > 0
    IN  /\ contentID \notin DOMAIN db
        /\ db' = [i \in DOMAIN db \cup {contentID} |->
                    IF i = contentID THEN content ELSE db[i]]
        /\ disp' = IF hasMedia THEN Spawn(content, contentID) ELSE disp
        /\ UNCHANGED <<tracker, hand, published, ledger, delivered, updates, merged, replay, query, mutex, callers>>

\* ------------------------------------------- ProcessMediaForContent
SetDisp(d, r) == [disp EXCEPT ![d] = r]

\* variant: the goroutine that publishes is started without the call of
\* TrackProcessingStart
DispatchStartUntracked(d) ==
    LET self == disp[d]
        taskCount == CountMediaTasks(self.content)
    IN  /\ d <= Len(disp)
        /\ self.pc = "start"
        /\ disp' = SetDisp(d, [self EXCEPT
                !.pc = IF taskCount <= 0 THEN "done" ELSE "pub_img"])
        /\ UNCHANGED <<db, tracker, ledger, hand, published, delivered, updates,
                       merged, replay, query, mutex, callers>>

\* variant: TrackProcessingStart registers the count of a draft record only
DispatchStartDraftOnly(d) ==
    LET self == disp[d]
        taskCount == CountMediaTasks(self.content)
    IN  /\ d <= Len(disp)
        /\ self.pc = "start"
        /\ IF taskCount <= 0
           THEN /\ disp' = SetDisp(d, [self EXCEPT !.pc = "done"])
                /\ UNCHANGED <<tracker, ledger>>
           ELSE /\ tracker' = IF db[self.id].status = "draft"
                              THEN StartRegister(tracker, self.id, taskCount)
                              ELSE tracker
                /\ ledger' = TrackerSet(ledger, self.id,
                                        [registered |-> taskCount, completed |-> 0,
                                         removed |-> 0])
                /\ disp' = SetDisp(d, [self EXCEPT !.pc = "ts_find"])
        /\ UNCHANGED <<db, hand, published, delivered, updates, merged, replay, query, mutex, callers>>

\* CountMediaTasks, the taskCount <= 0 return, and the locked section of
\* TrackProcessingStart
DispatchStart(d) ==
    LET self == disp[d]
        taskCount == CountMediaTasks(self.content)
    IN  /\ d <= Len(disp)
        /\ self.pc = "start"
        /\ IF taskCount <= 0
           THEN /\ disp' = SetDisp(d, [self EXCEPT !.pc = "done"])
                /\ UNCHANGED <<tracker, ledger>>
           ELSE /\ tracker' = StartRegister(tracker, self.id, taskCount)
                /\ ledger' = TrackerSet(ledger, self.id,
                                        [registered |-> taskCount, completed |-> 0,
                                         removed |-> 0])
                /\ disp' = SetDisp(d, [self EXCEPT !.pc = "ts_find"])
        /\ UNCHANGED <<db, hand, published, delivered, updates, merged, replay, query, mutex, callers>>

\* TrackProcessingStart: FindOne and the test of content.Status
TrackStartFind(d) ==
    LET self == disp[d]
    IN  /\ d <= Len(disp)
        /\ self.pc = "ts_find"
        /\ disp' = SetDisp(d, [self EXCEPT
                !.pc = IF db[self.id].status = "draft" THEN "ts_update" ELSE "pub_img"])
        /\ UNCHANGED <<db, tracker, hand, published, ledger, delivered, updates, merged, replay, query, mutex, callers>>

\* variant: the update of TrackProcessingStart is not filtered on the status
TrackStartUpdateUnfiltered(d) ==
    LET self == disp[d]
    IN  /\ d <= Len(disp)
        /\ self.pc = "ts_update"
        /\ db' = [db EXCEPT ![self.id].status = "processing"]
        /\ disp' = SetDisp(d, [self EXCEPT !.pc = "pub_img"])
        /\ UNCHANGED <<tracker, hand, published, ledger, delivered, updates, merged, replay, query, mutex, callers>>

\* TrackProcessingStart: UpdateOne filtered on status "draft"
TrackStartUpdate(d) ==
    LET self == disp[d]
    IN  /\ d <= Len(disp)
        /\ self.pc = "ts_update"
        /\ db' = StatusWrite(db, self.id, "draft", "processing")
        /\ disp' = SetDisp(d, [self EXCEPT !.pc = "pub_img"])
        /\ UNCHANGED <<tracker, hand, published, ledger, delivered, updates, merged, replay, query, mutex, callers>>

\* variant: the image loop publishes for an original key without URL too
NextImageAnyUrl(images, i) ==
    IF \E j \in i..Len(images) : HasPrefix(images[j].k, KOriginal)
    THEN CHOOSE j \in i..Len(images) :
            /\ HasPrefix(images[j].k, KOriginal)
            /\ \A l \in i..(j - 1) : ~HasPrefix(images[l].k, KOriginal)
    ELSE 0

\* the next image at or after position i that the image loop publishes, 0 if none
NextImage(images, i) ==
    IF \E j \in i..Len(images) : IsOriginal(images[j])
    THEN CHOOSE j \in i..Len(images) :
            IsOriginal(images[j]) /\ \A l \in i..(j - 1) : ~IsOriginal(images[l])
    ELSE 0

\* history: a call of publishToNATS and whether it returned nil
Attempt(request, ok) == [request |-> request, ok |-> ok]

ImageRequest(contentID, url) ==
    [topic |-> "compressimage", id |-> contentID, url |-> url, alpha |-> ""]

\* the image loop: processImage publishes, and only logs a publish error
PublishImage(d) ==
    LET self == disp[d]
        j == NextImage(self.content.images, self.i)
    IN  /\ d <= Len(disp)
        /\ self.pc = "pub_img"
        /\ IF j = 0
           THEN /\ disp' = SetDisp(d, [self EXCEPT !.pc = "pub_vid"])
                /\ UNCHANGED published
           ELSE \E ok \in BOOLEAN :
                  LET request == ImageRequest(self.id, self.content.images[j].v)
                  IN  /\ disp' = SetDisp(d, [self EXCEPT
                                !.i = j + 1,
                                !.tried = Append(@, Attempt(request, ok))])
                      /\ published' = IF ok THEN Append(published, request)
                                             ELSE published
        /\ UNCHANGED <<db, tracker, hand, ledger, delivered, updates, merged, replay, query, mutex, callers>>

\* the value of the first entry that satisfies Test, "" when there is none
FirstValue(hits) == IF Len(hits) = 0 THEN "" ELSE hits[1].v

IsMask(m) == HasPrefix(m.k, KMask) /\ m.v # ""

VideoRequest(contentID, videos) ==
    [topic |-> "createexperience", id |-> contentID,
     url |-> FirstValue(SelectSeq(videos, IsOriginal)),
     alpha |-> FirstValue(SelectSeq(videos, IsMask))]

\* the video part: one publish to createexperience; on a publish error the
\* compensating TrackProcessingComplete calls follow
PublishVideo(d) ==
    LET self == disp[d]
        request == VideoRequest(self.id, self.content.videos)
    IN  /\ d <= Len(disp)
        /\ self.pc = "pub_vid"
        /\ IF request.url = ""
           THEN /\ disp' = SetDisp(d, [self EXCEPT !.pc = "done"])
                /\ UNCHANGED published
           ELSE \E ok \in BOOLEAN :
                  IF ok
                  THEN /\ published' = Append(published, request)
                       /\ disp' = SetDisp(d, [self EXCEPT
                                !.pc = "done",
                                !.tried = Append(@, Attempt(request, ok))])
                  ELSE /\ disp' = SetDisp(d, [self EXCEPT
                                !.pc = "comp",
                                !.k = CompensationCalls,
                                !.tried = Append(@, Attempt(request, ok))])
                       /\ UNCHANGED published
        /\ UNCHANGED <<db, tracker, hand, ledger, delivered, updates, merged, replay, query, mutex, callers>>

\* ------------------------------------------------ TrackProcessingComplete
\* the locked section: the entry test, the decrement and the delete
CompleteLocked(contentID) ==
    /\ tracker' = CompleteRegister(tracker, contentID)
    /\ ledger' = IF contentID \in DOMAIN tracker /\ contentID \in DOMAIN ledger
                    THEN [ledger EXCEPT
                            ![contentID].completed = @ + 1,
                            ![contentID].removed =
                                IF CompleteOutcome(tracker, contentID) = "finished"
                                THEN @ + 1 ELSE @]
                    ELSE ledger

\* FindOne after the entry was removed: whether the status write follows
\* (ObjectIDFromHex or FindOne failing returns the error to the caller)
CompleteWrites(contentID) ==
    /\ IsObjectIDHex(contentID)
    /\ contentID \in DOMAIN db
    /\ db[contentID].status = "processing"

\* the dispatcher after one compensating call returned
AfterCompensation(self) ==
    [self EXCEPT !.k = self.k - 1,
                 !.pc = IF self.k - 1 = 0 THEN "done" ELSE "comp"]

Compensate(d) ==
    LET self == disp[d]
    IN  /\ d <= Len(disp)
        /\ self.pc = "comp"
        /\ CompleteLocked(self.id)
        /\ disp' = SetDisp(d, IF CompleteOutcome(tracker, self.id) = "finished"
                              THEN [self EXCEPT !.pc = "comp_find"]
                              ELSE AfterCompensation(self))
        /\ UNCHANGED <<db, hand, published, delivered, updates, merged, replay, query, mutex, callers>>

CompensateFind(d) ==
    LET self == disp[d]
    IN  /\ d <= Len(disp)
        /\ self.pc = "comp_find"
        /\ disp' = SetDisp(d, IF CompleteWrites(self.id)
                              THEN [self EXCEPT !.pc = "comp_update"]
                              ELSE AfterCompensation(self))
        /\ UNCHANGED <<db, tracker, hand, published, ledger, delivered, updates, merged, replay, query, mutex, callers>>

CompensateUpdate(d) ==
    LET self == disp[d]
    IN  /\ d <= Len(disp)
        /\ self.pc = "comp_update"
        /\ db' = StatusWrite(db, self.id, "processing", "processed")
        /\ disp' = SetDisp(d, AfterCompensation(self))
        /\ UNCHANGED <<tracker, hand, published, ledger, delivered, updates, merged, replay, query, mutex, callers>>

\* ------------------------------------------------------ processMediaResult
\* variant: only the content id is required
MissingFieldsIdOnly(result) == result.ContentID = ""

\* the first return of processMediaResult: missing required fields
MissingFields(result) ==
    \/ result.ContentID = ""
    \/ (result.ProcessedURL = "" /\ result.HlsURL = "" /\ result.DashURL = "")

\* updateOps of processMediaResult, as the set of (field, value) pairs of $set
VideoOps(result, videos) ==
    CASE result.ProcessingType = "compressed" /\ result.ProcessedURL # "" ->
            {<<"videos", updateMediaField(videos, KCompressed, result.ProcessedURL)>>}
      [] result.ProcessingType = "hls" ->
            LET withHls == IF result.HlsURL # ""
                           THEN updateMediaField(videos, KHls, result.HlsURL)
                           ELSE videos
                withDash == IF result.DashURL # ""
                            THEN updateMediaField(withHls, KDash, result.DashURL)
                            ELSE withHls
            IN  {<<"videos", withDash>>}
      [] result.ProcessingType = "alpha" /\ result.ProcessedURL # "" ->
            {<<"videos", updateMediaField(videos, KAlpha, result.ProcessedURL)>>}
      [] result.ProcessingType = "stitched" /\ result.ProcessedURL # "" ->
            {<<"videos", updateMediaField(videos, KStitched, result.ProcessedURL)>>}
      [] OTHER -> {}

\* variant: the orientation of a result is stored only while the record has
\* none
UpdateOpsFirstOrientation(result, content) ==
    (IF result.Orientation # "" /\ content.orientation = ""
     THEN {<<"orientation", result.Orientation>>} ELSE {})
    \cup (IF result.HasAlpha THEN {<<"has_alpha", TRUE>>} ELSE {})
    \cup (CASE result.MediaType = "image" /\ result.ProcessedURL # "" ->
                {<<"images",
                   updateMediaField(content.images, KCompressed, result.ProcessedURL)>>}
            [] result.MediaType = "video" -> VideoOps(result, content.videos)
            [] result.MediaType = "object_3d" /\ result.ProcessedURL # "" ->
                {<<"objects_3d",
                   updateMediaField(content.objects_3d, KProcessed, result.ProcessedURL)>>}
            [] OTHER -> {})

\* variant: has_alpha is set to the flag of every result
UpdateOpsAlphaCopied(result, content) ==
    (IF result.Orientation # "" THEN {<<"orientation", result.Orientation>>} ELSE {})
    \cup {<<"has_alpha", result.HasAlpha>>}
    \cup (CASE result.MediaType = "image" /\ result.ProcessedURL # "" ->
                {<<"images",
                   updateMediaField(content.images, KCompressed, result.ProcessedURL)>>}
            [] result.MediaType = "video" -> VideoOps(result, content.videos)
            [] result.MediaType = "object_3d" /\ result.ProcessedURL # "" ->
                {<<"objects_3d",
                   updateMediaField(content.objects_3d, KProcessed, result.ProcessedURL)>>}
            [] OTHER -> {})

UpdateOps(result, content) ==
    (IF result.Orientation # "" THEN {<<"orientation", result.Orientation>>} ELSE {})
    \cup (IF result.HasAlpha THEN {<<"has_alpha", TRUE>>} ELSE {})
    \cup (CASE result.MediaType = "image" /\ result.ProcessedURL # "" ->
                {<<"images",
                   updateMediaField(content.images, KCompressed, result.ProcessedURL)>>}
            [] result.MediaType = "video" -> VideoOps(result, content.videos)
            [] result.MediaType = "object_3d" /\ result.ProcessedURL # "" ->
                {<<"objects_3d",
                   updateMediaField(content.objects_3d, KProcessed, result.ProcessedURL)>>}
            [] OTHER -> {})

\* the value $set gives field, or old when ops does not name it
SetField(ops, field, old) ==
    IF \E o \in ops : o[1] = field
    THEN (CHOOSE o \in ops : o[1] = field)[2]
    ELSE old

\* collection.UpdateOne(ctx, {_id}, {$set: updateOps})
ApplyOps(content, ops) ==
    [status |-> content.status,
     images |-> SetField(ops, "images", content.images),
     videos |-> SetField(ops, "videos", content.videos),
     objects_3d |-> SetField(ops, "objects_3d", content.objects_3d),
     has_alpha |-> SetField(ops, "has_alpha", content.has_alpha),
     orientation |-> SetField(ops, "orientation", content.orientation)]

SetHand(h, r) == [hand EXCEPT ![h] = r]

\* variant: a failure result is applied like a success
AcceptFailureAsSuccess(result) ==
    IF MissingFields(result) THEN IdleHandler("err")
    ELSE IF ~IsObjectIDHex(result.ContentID) THEN IdleHandler("err")
    ELSE [IdleHandler("none") EXCEPT !.pc = "find", !.result = result]

\* where processMediaResult goes after validating the result
Accept(result) ==
    IF MissingFields(result) THEN IdleHandler("err")
    ELSE IF ~result.Success
    THEN [IdleHandler("none") EXCEPT !.pc = "tc_lock", !.result = result]
    ELSE IF ~IsObjectIDHex(result.ContentID) THEN IdleHandler("err")
    ELSE [IdleHandler("none") EXCEPT !.pc = "find", !.result = result]

\* variant: a successful result whose values the record already holds is
\* answered without being applied or counted
DeliverDeduplicated(h, result) ==
    /\ delivered < MaxDeliveries
    /\ hand[h].pc = "idle"
    /\ \A g \in Handlers : g < h => hand[g].pc # "idle"
    /\ result.ContentID \in RecordIds =>
            \E i \in 1..Len(published) : published[i].id = result.ContentID
    /\ delivered' = delivered + 1
    /\ hand' = SetHand(h,
            IF /\ result.Success
               /\ result.ContentID \in DOMAIN db
               /\ ApplyOps(db[result.ContentID],
                           UpdateOps(result, db[result.ContentID]))
                    = db[result.ContentID]
            THEN IdleHandler("ok")
            ELSE Accept(result))
    /\ UNCHANGED <<db, tracker, disp, published, ledger, updates, merged, replay, query, mutex, callers>>

\* a result arrives by the callback endpoint or a subscription.  The
\* processor learns the id of a record from a published request, and reports
\* on the record only after that.
Deliver(h, result) ==
    /\ delivered < MaxDeliveries
    /\ hand[h].pc = "idle"
    /\ \A g \in Handlers : g < h => hand[g].pc # "idle"
    /\ result.ContentID \in RecordIds =>
            \E i \in 1..Len(published) : published[i].id = result.ContentID
    /\ delivered' = delivered + 1
    /\ hand' = SetHand(h, Accept(result))
    /\ UNCHANGED <<db, tracker, disp, published, ledger, updates, merged, replay, query, mutex, callers>>

\* variant: a record that cannot be loaded is logged and the task counted
HandlerFindCounted(h) ==
    LET self == hand[h]
        contentID == self.result.ContentID
    IN  /\ self.pc = "find"
        /\ hand' = SetHand(h,
              IF contentID \notin DOMAIN db THEN [self EXCEPT !.pc = "tc_lock"]
              ELSE [self EXCEPT !.pc = "update",
                                !.ops = UpdateOps(self.result, db[contentID])])
        /\ UNCHANGED <<db, tracker, disp, published, ledger, delivered, updates, merged,
                       replay, query, mutex, callers>>

\* FindOne of the record and the computation of updateOps
HandlerFind(h) ==
    LET self == hand[h]
        contentID == self.result.ContentID
    IN  /\ self.pc = "find"
        /\ hand' = SetHand(h,
              IF contentID \notin DOMAIN db THEN IdleHandler("err")
              ELSE [self EXCEPT !.pc = "update",
                                !.ops = UpdateOps(self.result, db[contentID])])
        /\ UNCHANGED <<db, tracker, disp, published, ledger, delivered, updates, merged, replay, query, mutex, callers>>

\* UpdateOne of the record with $set updateOps
HandlerUpdate(h) ==
    LET self == hand[h]
        contentID == self.result.ContentID
    IN  /\ self.pc = "update"
        /\ db' = IF contentID \in DOMAIN db
                 THEN [db EXCEPT ![contentID] = ApplyOps(db[contentID], self.ops)]
                 ELSE db
        /\ hand' = SetHand(h, [self EXCEPT !.pc = "tc_lock", !.ops = {}])
        /\ UNCHANGED <<tracker, disp, published, ledger, delivered, updates, merged, replay, query, mutex, callers>>

\* TrackProcessingComplete, locked section; its error is only logged and
\* processMediaResult returns nil
HandlerComplete(h) ==
    LET self == hand[h]
        contentID == self.result.ContentID
    IN  /\ self.pc = "tc_lock"
        /\ CompleteLocked(contentID)
        /\ hand' = SetHand(h, IF CompleteOutcome(tracker, contentID) = "finished"
                              THEN [self EXCEPT !.pc = "tc_find"]
                              ELSE IdleHandler("ok"))
        /\ UNCHANGED <<db, disp, published, delivered, updates, merged, replay, query, mutex, callers>>

HandlerTrackFind(h) ==
    LET self == hand[h]
    IN  /\ self.pc = "tc_find"
        /\ hand' = SetHand(h, IF CompleteWrites(self.result.ContentID)
                              THEN [self EXCEPT !.pc = "tc_update"]
                              ELSE IdleHandler("ok"))
        /\ UNCHANGED <<db, tracker, disp, published, ledger, delivered, updates, merged, replay, query, mutex, callers>>

HandlerTrackUpdate(h) ==
    LET self == hand[h]
    IN  /\ self.pc = "tc_update"
        /\ db' = StatusWrite(db, self.result.ContentID, "processing", "processed")
        /\ hand' = SetHand(h, IdleHandler("ok"))
        /\ UNCHANGED <<tracker, disp, published, ledger, delivered, updates, merged, replay, query, mutex, callers>>

\* --------------------------------------------------------- UpdateMRContent
\* the keys UpdateMRContent puts in newMediaForProcessing for one media kind
NewOriginalKeys(existingMedia, updateMedia) ==
    LET existingOriginals == SelectSeq(existingMedia, LAMBDA m : HasPrefix(m.k, KOriginal))
    IN  {updateMedia[i].k : i \in
            {j \in 1..Len(updateMedia) :
                /\ HasPrefix(updateMedia[j].k, KOriginal)
                /\ \/ updateMedia[j].k \notin KeysOf(existingOriginals)
                   \/ LastValue(existingOriginals, updateMedia[j].k) # updateMedia[j].v}}

\* the entries of one kind that go into contentToProcess
ToProcess(updatedMedia, newKeys) ==
    SelectSeq(updatedMedia, LAMBDA m : m.k \in newKeys /\ HasPrefix(m.k, KOriginal))

\* the handler's reads and its write are taken as one step
UpdateMRContent(contentID, images, videos, objects, status) ==
    /\ updates < MaxUpdates
    /\ contentID \in DOMAIN db
    /\ LET existing == db[contentID]
           newKeys == NewOriginalKeys(existing.images, images)
                      \cup NewOriginalKeys(existing.videos, videos)
                      \cup NewOriginalKeys(existing.objects_3d, objects)
       IN  \E updatedImages \in mergeMediaByKey(existing.images, images),
              updatedVideos \in mergeMediaByKey(existing.videos, videos),
              updatedObjects \in mergeMediaByKey(existing.objects_3d, objects) :
             /\ db' = [db EXCEPT ![contentID] =
                        [existing EXCEPT
                            !.images = updatedImages,
                            !.videos = updatedVideos,
                            !.objects_3d = updatedObjects,
                            !.status = IF status # "" THEN status ELSE existing.status]]
             /\ disp' = IF newKeys # {}
                        THEN Spawn([status |-> "",
                                    images |-> ToProcess(updatedImages, newKeys),
                                    videos |-> ToProcess(updatedVideos, newKeys),
                                    objects_3d |-> ToProcess(updatedObjects, newKeys),
                                    has_alpha |-> existing.has_alpha,
                                    orientation |-> ""], contentID)
                        ELSE disp
    /\ updates' = updates + 1
    /\ UNCHANGED <<tracker, hand, published, ledger, delivered, merged, replay, query, mutex, callers>>

\* ------------------------------------------------------ the results received
ResultIds == {"c1"}
ResultKinds == {<<"image", "compressed", "p", "", TRUE>>,
                <<"video", "hls", "", "h", TRUE>>,
                <<"video", "compressed", "p", "", FALSE>>}

\* a MediaProcessResult of the processor, with its feedback fields set
ResultOf(id, kind) ==
    [ContentID |-> id, MediaType |-> kind[1], ProcessingType |-> kind[2],
     ProcessedURL |-> kind[3], HlsURL |-> kind[4], DashURL |-> "",
     Orientation |-> "landscape", HasAlpha |-> TRUE, Success |-> kind[5]]

Results == {ResultOf(id, kind) : id \in ResultIds, kind \in ResultKinds}

FailureResults == {r \in Results : ~r.Success}

\* ------------------------------------------------------------ specification
CreateStep(bodies) ==
    \E contentID \in RecordIds, body \in bodies :
        CreateMRContent(contentID, body.images, body.videos, body.objects_3d,
                        body.status)

UpdateStep(bodies) ==
    \E contentID \in RecordIds, body \in bodies :
        UpdateMRContent(contentID, body.images, body.videos, body.objects_3d,
                        body.status)

DispatcherStep ==
    \E d \in Dispatchers :
        \/ DispatchStart(d)
        \/ TrackStartFind(d)
        \/ TrackStartUpdate(d)
        \/ PublishImage(d)
        \/ PublishVideo(d)
        \/ Compensate(d)
        \/ CompensateFind(d)
        \/ CompensateUpdate(d)

\* a failure report is applied by the tracker alone
CompletionStep ==
    \E h \in Handlers :
        \/ HandlerComplete(h)
        \/ HandlerTrackFind(h)
        \/ HandlerTrackUpdate(h)

HandlerStep ==
    \/ \E h \in Handlers :
            \/ \E result \in Results : Deliver(h, result)
            \/ HandlerFind(h)
            \/ HandlerUpdate(h)
    \/ CompletionStep

\* records are created, their status may be set by a client, media is
\* dispatched once per record and results are ingested
Next ==
    \/ CreateStep(CreateBodies)
    \/ UpdateStep(StatusBodies)
    \/ DispatcherStep
    \/ HandlerStep

Spec == Init /\ [][Next]_vars

\* draft records whose media a client extends, so that media is dispatched
\* again for a record that is being tracked
NextRedispatch ==
    \/ CreateStep(DraftBodies)
    \/ UpdateStep(MediaBodies)
    \/ DispatcherStep
    \/ \E h \in Handlers : \E result \in FailureResults : Deliver(h, result)
    \/ CompletionStep

SpecRedispatch == Init /\ [][NextRedispatch]_vars

\* successful results of the two tasks of one video
ConcurrentKinds == {<<"video", "compressed", "p", "", TRUE>>,
                    <<"video", "hls", "", "h", TRUE>>}

\* a draft record with one original video, with or without an image
ConcurrentBodies ==
    {b \in DraftBodies : b.videos = <<Media(KOriginal, "v")>>}

ConcurrentResults == {ResultOf(id, kind) : id \in ResultIds, kind \in ConcurrentKinds}

\* successful results are ingested by concurrent handlers while a client
\* extends the media of the record
NextConcurrent ==
    \/ CreateStep(ConcurrentBodies)
    \/ UpdateStep(MediaBodies)
    \/ DispatcherStep
    \/ \E h \in Handlers :
            \/ \E result \in ConcurrentResults : Deliver(h, result)
            \/ HandlerFind(h)
            \/ HandlerUpdate(h)
    \/ CompletionStep

SpecConcurrent == Init /\ [][NextConcurrent]_vars

\* results that lack the content id, or every produced URL, with either
\* success flag
InvalidResults ==
    {ResultOf("", kind) : kind \in ResultKinds}
    \cup {ResultOf(id, <<"image", "compressed", "", "", success>>) :
            id \in ResultIds, success \in BOOLEAN}

\* the processor reports failures and sends malformed results
NextRejected ==
    \/ CreateStep(DraftBodies)
    \/ DispatcherStep
    \/ \E h \in Handlers :
            \E result \in FailureResults \cup InvalidResults : Deliver(h, result)
    \/ CompletionStep

SpecRejected == Init /\ [][NextRejected]_vars

\* request bodies of CreateMRContent for a draft record whose lists hold
\* each key once
CompensationBodies ==
    {b \in DraftBodies : /\ Cardinality(KeysOf(b.images)) = Len(b.images)
                         /\ Cardinality(KeysOf(b.videos)) = Len(b.videos)}

\* the dispatch goroutine and the result handlers, once started, run to
\* their end: every step of theirs that stays possible is taken. Whether
\* the processor sends a result is not the service's to decide.
NextCompensation ==
    \/ CreateStep(CompensationBodies)
    \/ DispatcherStep
    \/ \E h \in Handlers : \E result \in FailureResults : Deliver(h, result)
    \/ CompletionStep

SpecCompensation ==
    /\ Init
    /\ [][NextCompensation]_vars
    /\ WF_vars(DispatcherStep)
    /\ WF_vars(CompletionStep)

\* dispatch alone: the processor sends no result at all
NextSilent ==
    \/ CreateStep(CompensationBodies)
    \/ DispatcherStep

SpecSilent == Init /\ [][NextSilent]_vars

\* variant: the error of UpdateOne is logged and the task is counted
HandlerUpdateFailsCounted(h) ==
    /\ hand[h].pc = "update"
    /\ hand' = SetHand(h, [hand[h] EXCEPT !.pc = "tc_lock", !.ops = {}])
    /\ UNCHANGED <<db, tracker, disp, published, ledger, delivered, updates, merged,
                   replay, query, mutex, callers>>

\* UpdateOne of the record returns an error (a timeout of the 5 s context, a
\* lost connection): processMediaResult returns it
HandlerUpdateFails(h) ==
    /\ hand[h].pc = "update"
    /\ hand' = SetHand(h, IdleHandler("err"))
    /\ UNCHANGED <<db, tracker, disp, published, ledger, delivered, updates, merged,
                   replay, query, mutex, callers>>

SuccessResults == Results \ FailureResults

\* results of successful tasks are applied by a store whose write may fail
NextStoreFailure ==
    \/ CreateStep(CompensationBodies)
    \/ DispatcherStep
    \/ \E h \in Handlers :
            \/ \E result \in SuccessResults : Deliver(h, result)
            \/ HandlerFind(h)
            \/ HandlerUpdate(h)
            \/ HandlerUpdateFails(h)
    \/ CompletionStep

SpecStoreFailure == Init /\ [][NextStoreFailure]_vars

\* the one message the bus delivers again and again: the packaging result
\* of the video
DuplicateResults == {ResultOf(id, <<"video", "hls", "", "h", TRUE>>) : id \in ResultIds}

\* at-least-once delivery: the same result message is received repeatedly
NextDuplicate ==
    \/ CreateStep(ConcurrentBodies)
    \/ DispatcherStep
    \/ \E h \in Handlers :
            \/ \E result \in DuplicateResults : Deliver(h, result)
            \/ HandlerFind(h)
            \/ HandlerUpdate(h)
    \/ CompletionStep

SpecDuplicate == Init /\ [][NextDuplicate]_vars

\* request bodies of UpdateMRContent by which a client sets a status of its
\* own (the handler accepts any non-empty string)
RaceBodies ==
    {[images |-> <<>>, videos |-> <<>>, objects_3d |-> <<>>, status |-> "archived"]}

\* a client sets the status of a record at any moment of its processing
NextStatusRace ==
    \/ CreateStep(DraftBodies)
    \/ UpdateStep(RaceBodies)
    \/ DispatcherStep
    \/ \E h \in Handlers : \E result \in FailureResults : Deliver(h, result)
    \/ CompletionStep

SpecStatusRace == Init /\ [][NextStatusRace]_vars

\* media entries of every sort: originals with and without URL, outputs of
\* the processor, mask videos under the key mask and under a longer key
KMaskHd == <<"mask", "_hd">>
DispatchImages ==
    {Media(KOriginal, "a"), Media(KOriginal2, "b"), Media(KOriginal2, ""),
     Media(KCompressed, "c")}
DispatchVideos ==
    {Media(KOriginal, "v"), Media(KOriginal2, ""), Media(KMask, "m"),
     Media(KMask, ""), Media(KMaskHd, "n")}
DispatchObjects == {Media(KOriginal, "o"), Media(KProcessed, "q")}

DispatchBodies ==
    {b \in [images : SeqsUpTo(DispatchImages, MaxDispatchMedia),
            videos : SeqsUpTo(DispatchVideos, MaxDispatchMedia),
            objects_3d : SeqsUpTo(DispatchObjects, 1),
            status : {""}] :
        Len(b.images) + Len(b.videos) + Len(b.objects_3d) <= MaxDispatchMedia}

\* the dispatch of records of every sort, whatever becomes of the requests
NextDispatch ==
    \/ CreateStep(DispatchBodies)
    \/ DispatcherStep

SpecDispatch == Init /\ [][NextDispatch]_vars

\* successful results of every media kind and processing sub-type, each
\* carrying the URL of its sub-type; the packaging result also with a DASH
\* URL alone
ApplyResults ==
    {ResultOf(id, kind) : id \in ResultIds,
        kind \in {<<"image", "compressed", "p", "", TRUE>>,
                  <<"object_3d", "compressed", "p", "", TRUE>>,
                  <<"video", "compressed", "p", "", TRUE>>,
                  <<"video", "alpha", "p", "", TRUE>>,
                  <<"video", "stitched", "p", "", TRUE>>,
                  <<"video", "hls", "", "h", TRUE>>}}
    \cup {[ResultOf(id, <<"video", kind, "", "", TRUE>>) EXCEPT !.DashURL = "d"] :
            id \in ResultIds, kind \in {"hls", "dash"}}

\* request bodies of CreateMRContent for a draft record of one video
ApplyBodies == {b \in DraftBodies : b.videos = <<Media(KOriginal, "v")>> /\ b.images = <<>>}

\* the results of every sub-type are applied to a record
NextApply ==
    \/ CreateStep(ApplyBodies)
    \/ DispatcherStep
    \/ \E h \in Handlers :
            \/ \E result \in ApplyResults : Deliver(h, result)
            \/ HandlerFind(h)
            \/ HandlerUpdate(h)
    \/ CompletionStep

SpecApply == Init /\ [][NextApply]_vars

\* results of one video task, successful or failed, with every feedback the
\* processor can attach: no orientation or one of two, has_alpha set or not
FeedbackResults ==
    {[ResultOf(id, <<"video", "compressed", "p", "", success>>)
        EXCEPT !.Orientation = orientation, !.HasAlpha = hasAlpha] :
        id \in ResultIds, success \in BOOLEAN,
        orientation \in {"", "landscape", "portrait"}, hasAlpha \in BOOLEAN}

\* results with every feedback are applied to a record
NextFeedback ==
    \/ CreateStep(ApplyBodies)
    \/ DispatcherStep
    \/ \E h \in Handlers :
            \/ \E result \in FeedbackResults : Deliver(h, result)
            \/ HandlerFind(h)
            \/ HandlerUpdate(h)
    \/ CompletionStep

SpecFeedback == Init /\ [][NextFeedback]_vars

\* FindOne of the record returns an error (a timeout of the 5 s context, a
\* lost connection): processMediaResult returns it
HandlerFindFails(h) ==
    /\ hand[h].pc = "find"
    /\ hand' = SetHand(h, IdleHandler("err"))
    /\ UNCHANGED <<db, tracker, disp, published, ledger, delivered, updates, merged,
                   replay, query, mutex, callers>>

\* successful results with every required field, for a string that is no
\* object id, for a well-formed id without record, and for the record
UnloadableResults ==
    {ResultOf(id, <<"video", "compressed", "p", "", TRUE>>) : id \in {"zz", "c9", "c1"}}

\* results arrive for ids the store cannot load, and its reads may fail
NextUnloadable ==
    \/ CreateStep(ApplyBodies)
    \/ DispatcherStep
    \/ \E h \in Handlers :
            \/ \E result \in UnloadableResults : Deliver(h, result)
            \/ HandlerFind(h)
            \/ HandlerFindFails(h)
            \/ HandlerUpdate(h)
    \/ CompletionStep

SpecUnloadable == Init /\ [][NextUnloadable]_vars

\* variant: ProcessMediaForContent returns when TrackProcessingStart fails
TrackStartFailsReturns(d) ==
    LET self == disp[d]
    IN  /\ d <= Len(disp)
        /\ self.pc \in {"ts_find", "ts_update"}
        /\ disp' = SetDisp(d, [self EXCEPT !.pc = "done", !.startErr = TRUE])
        /\ UNCHANGED <<db, tracker, hand, published, ledger, delivered, updates, merged,
                       replay, query, mutex, callers>>

\* TrackProcessingStart: FindOne or UpdateOne returns an error (a timeout of
\* the 5 s context, a lost connection), which TrackProcessingStart returns
\* and ProcessMediaForContent logs before it goes on
TrackStartFails(d) ==
    LET self == disp[d]
    IN  /\ d <= Len(disp)
        /\ self.pc \in {"ts_find", "ts_update"}
        /\ disp' = SetDisp(d, [self EXCEPT !.pc = "pub_img", !.startErr = TRUE])
        /\ UNCHANGED <<db, tracker, hand, published, ledger, delivered, updates, merged,
                       replay, query, mutex, callers>>

\* records are dispatched and their results applied while the store may fail
\* the status read or write of TrackProcessingStart
NextStartFailure ==
    \/ CreateStep(CompensationBodies)
    \/ DispatcherStep
    \/ \E d \in Dispatchers : TrackStartFails(d)
    \/ \E h \in Handlers :
            \/ \E result \in SuccessResults : Deliver(h, result)
            \/ HandlerFind(h)
            \/ HandlerUpdate(h)
    \/ CompletionStep

SpecStartFailure == Init /\ [][NextStartFailure]_vars

\* the ids of two records that are processed side by side
IsolationIds == {"c1", "c9"}

\* a successful and a failed result of the compression task of either record
IsolationResults ==
    {ResultOf(id, <<"video", "compressed", "p", "", success>>) :
        id \in IsolationIds, success \in BOOLEAN}

\* two records are created, dispatched and their results applied
NextIsolation ==
    \/ \E contentID \in IsolationIds, body \in ApplyBodies :
            CreateMRContent(contentID, body.images, body.videos, body.objects_3d,
                            body.status)
    \/ DispatcherStep
    \/ \E h \in Handlers :
            \/ \E result \in IsolationResults : Deliver(h, result)
            \/ HandlerFind(h)
            \/ HandlerUpdate(h)
    \/ CompletionStep

SpecIsolation == Init /\ [][NextIsolation]_vars

\* request bodies of UpdateMRContent that name the original image, with the
\* stored URL or a new one, the original video, or nothing
UpdateBodies ==
    {[images |-> images, videos |-> videos, objects_3d |-> <<>>, status |-> ""] :
        images \in {<<>>, <<Media(KOriginal, "a")>>, <<Media(KOriginal, "b")>>},
        videos \in {<<>>, <<Media(KOriginal, "v")>>}}

\* records are created and updated by clients, and their media dispatched
NextUpdate ==
    \/ CreateStep(CompensationBodies)
    \/ UpdateStep(UpdateBodies)
    \/ DispatcherStep

SpecUpdate == Init /\ [][NextUpdate]_vars

\* ---------------------------------------------------- GetProcessingStatus
\* the ids a caller asks about: a record id, a well-formed id without
\* record, and a string that is no object id
QueryIds == {"c1", "c9", "zz"}

\* variant: the tracker is never consulted
QueryExistsNever(t, contentID) == FALSE

\* remainingTasks, exists := mediaTracker.processingTasks[contentID]
QueryExists(t, contentID) == contentID \in DOMAIN t

\* the locked read of the tracker table and the answer for a tracked id
QueryLocked(contentID) ==
    /\ query.pc = "idle"
    /\ query.n < MaxQueries
    /\ query' = IF QueryExists(tracker, contentID)
                THEN [pc |-> "idle", id |-> contentID, status |-> "processing",
                      remaining |-> tracker[contentID], err |-> FALSE,
                      n |-> query.n + 1]
                ELSE [pc |-> "find", id |-> contentID, status |-> "",
                      remaining |-> 0, err |-> FALSE, n |-> query.n + 1]
    /\ UNCHANGED <<db, tracker, disp, hand, published, ledger, delivered, updates,
                   merged, replay, mutex, callers>>

\* ObjectIDFromHex and FindOne: the answer for an id without entry
QueryFind ==
    /\ query.pc = "find"
    /\ query' = IF IsObjectIDHex(query.id) /\ query.id \in DOMAIN db
                THEN [query EXCEPT !.pc = "idle", !.status = db[query.id].status,
                                   !.remaining = 0]
                ELSE [query EXCEPT !.pc = "idle", !.err = TRUE]
    /\ UNCHANGED <<db, tracker, disp, hand, published, ledger, delivered, updates,
                   merged, replay, mutex, callers>>

QueryStep == (\E contentID \in QueryIds : QueryLocked(contentID)) \/ QueryFind

\* request bodies of CreateMRContent for a record of videos, of any status
QueryBodies == {b \in CreateBodies : b.images = <<>> /\ b.objects_3d = <<>>}

\* callers ask for the status of records while their media is dispatched
\* and failure reports complete their tasks
NextQuery ==
    \/ CreateStep(QueryBodies)
    \/ DispatcherStep
    \/ \E h \in Handlers : \E result \in FailureResults : Deliver(h, result)
    \/ CompletionStep
    \/ QueryStep

SpecQuery == Init /\ [][NextQuery]_vars

\* ----------------------------------------------------- mediaTracker.mutex
\* the ids the tracker operations are called with: a record id and a
\* well-formed id without record, whose FindOne fails
MutexIds == {"c1", "c9"}

\* the calls made: TrackProcessingStart with no task and with two,
\* TrackProcessingComplete and GetProcessingStatus
CallKinds == {<<"start", 0>>, <<"start", 2>>, <<"complete", 0>>, <<"status", 0>>}

SetCaller(c, r) == [callers EXCEPT ![c] = r]

\* the operation returned to its caller
Returned(self) == [NoCall EXCEPT !.n = self.n]

\* a goroutine calls a tracker operation; TrackProcessingStart returns at
\* once when taskCount <= 0
Call(c, kind, contentID) ==
    /\ callers[c].pc = "idle"
    /\ callers[c].n < MaxCalls
    /\ callers' = SetCaller(c,
            IF kind[1] = "start" /\ kind[2] <= 0
            THEN [NoCall EXCEPT !.n = callers[c].n + 1]
            ELSE [pc |-> "lock", op |-> kind[1], id |-> contentID,
                  taskCount |-> kind[2], path |-> "", n |-> callers[c].n + 1])
    /\ UNCHANGED <<db, tracker, disp, hand, published, ledger, delivered, updates,
                   merged, replay, query, mutex>>

\* mediaTracker.mutex.Lock()
Lock(c) ==
    /\ callers[c].pc = "lock"
    /\ mutex = 0
    /\ mutex' = c
    /\ callers' = SetCaller(c, [callers[c] EXCEPT !.pc = "locked"])
    /\ UNCHANGED <<db, tracker, disp, hand, published, ledger, delivered, updates,
                   merged, replay, query>>

\* the statements between Lock and Unlock, and the path they choose
Locked(c) ==
    LET self == callers[c]
    IN  /\ self.pc = "locked"
        /\ tracker' = CASE self.op = "start" ->
                                StartRegister(tracker, self.id, self.taskCount)
                        [] self.op = "complete" -> CompleteRegister(tracker, self.id)
                        [] OTHER -> tracker
        /\ callers' = SetCaller(c, [self EXCEPT
                !.pc = "unlock",
                !.path = CASE self.op = "start" -> "registered"
                           [] self.op = "complete" -> CompleteOutcome(tracker, self.id)
                           [] OTHER -> IF QueryExists(tracker, self.id)
                                       THEN "tracked" ELSE "unknown"])
        /\ UNCHANGED <<db, disp, hand, published, ledger, delivered, updates,
                       merged, replay, query, mutex>>

\* variant: the return for an id without entry leaves the mutex locked
UnlockedButUntracked(c, path) == IF path = "untracked" THEN c ELSE 0

\* the mutex after the Unlock() of the path taken
Unlocked(c, path) == 0

\* mediaTracker.mutex.Unlock(), and the return of the paths that end here
Unlock(c) ==
    LET self == callers[c]
    IN  /\ self.pc = "unlock"
        /\ mutex' = Unlocked(c, self.path)
        /\ callers' = SetCaller(c,
                IF self.path \in {"untracked", "remaining", "tracked"}
                THEN Returned(self)
                ELSE [self EXCEPT !.pc = "find"])
        /\ UNCHANGED <<db, tracker, disp, hand, published, ledger, delivered, updates,
                       merged, replay, query>>

\* ObjectIDFromHex and FindOne, which the store answers or fails, and the
\* test of the status read
StoreFind(c) ==
    LET self == callers[c]
    IN  /\ self.pc = "find"
        /\ \E answered \in BOOLEAN :
                callers' = SetCaller(c,
                    IF /\ answered
                       /\ IsObjectIDHex(self.id)
                       /\ self.id \in DOMAIN db
                       /\ \/ self.op = "start" /\ db[self.id].status = "draft"
                          \/ self.op = "complete" /\ db[self.id].status = "processing"
                    THEN [self EXCEPT !.pc = "update"]
                    ELSE Returned(self))
        /\ UNCHANGED <<db, tracker, disp, hand, published, ledger, delivered, updates,
                       merged, replay, query, mutex>>

\* UpdateOne of the status, which the store performs or fails
StoreUpdate(c) ==
    LET self == callers[c]
    IN  /\ self.pc = "update"
        /\ \E answered \in BOOLEAN :
                db' = IF ~answered THEN db
                      ELSE IF self.op = "start"
                      THEN StatusWrite(db, self.id, "draft", "processing")
                      ELSE StatusWrite(db, self.id, "processing", "processed")
        /\ callers' = SetCaller(c, Returned(self))
        /\ UNCHANGED <<tracker, disp, hand, published, ledger, delivered, updates,
                       merged, replay, query, mutex>>

\* the steps that need the mutex only
MutexStep == \E c \in Callers : Lock(c) \/ Locked(c) \/ Unlock(c)

\* records are created, and goroutines call the tracker operations
NextMutex ==
    \/ CreateStep(ApplyBodies)
    \/ \E c \in Callers, kind \in CallKinds, contentID \in MutexIds :
            Call(c, kind, contentID)
    \/ MutexStep
    \/ \E c \in Callers : StoreFind(c) \/ StoreUpdate(c)

SpecMutex == Init /\ [][NextMutex]_vars


\* ------------------------------------------------- the media merge functions
\* the entries the merged lists are drawn from: two values under one key,
\* and a processing output
MergeEntries == {Media(KOriginal, "a"), Media(KOriginal, "b"), Media(KCompressed, "b")}

MergeLists == SeqsUpTo(MergeEntries, MaxMergeLen)

\* any existing list and any update list
InitMerge ==
    /\ InitService
    /\ replay = NoReplay
    /\ query = NoQuery
    /\ InitMutex
    /\ merged \in {[NoMerge EXCEPT !.existingMedia = l, !.newMedia = u] :
                        l \in MergeLists, u \in MergeLists}

\* the outcome r of the n-th application is recorded
Applied(via, r) ==
    [merged EXCEPT !.via = via, !.n = @ + 1,
                   !.once = IF merged.n = 0 THEN r ELSE @,
                   !.twice = IF merged.n = 1 THEN r ELSE @]

\* the list the next application starts from
Current == IF merged.n = 0 THEN merged.existingMedia ELSE merged.once

\* mergeMediaByKey(current, newMedia), as UpdateMRContent calls it
MergeByKey ==
    /\ merged.n < 2
    /\ merged.via \in {"none", "mergeMediaByKey"}
    /\ \E r \in mergeMediaByKey(Current, merged.newMedia) :
            merged' = Applied("mergeMediaByKey", r)
    /\ UNCHANGED <<db, tracker, disp, hand, published, ledger, delivered, updates, replay, query, mutex, callers>>

\* updateMediaField(current, key, value), as processMediaResult calls it,
\* for an update of one pair
UpdateField ==
    /\ merged.n < 2
    /\ merged.via \in {"none", "updateMediaField"}
    /\ Len(merged.newMedia) = 1
    /\ merged' = Applied("updateMediaField",
                         updateMediaField(Current, merged.newMedia[1].k,
                                          merged.newMedia[1].v))
    /\ UNCHANGED <<db, tracker, disp, hand, published, ledger, delivered, updates, replay, query, mutex, callers>>

NextMerge == MergeByKey \/ UpdateField

SpecMerge == InitMerge /\ [][NextMerge]_vars

\* ------------------------------------- results applied one after another
\* the successful results of the tasks of one record: a compression result
\* for each of two original images, and the results of a video
ReplayKinds == {<<"image", "compressed", "p", "", TRUE>>,
                <<"image", "compressed", "q", "", TRUE>>,
                <<"video", "compressed", "p", "", TRUE>>,
                <<"video", "hls", "", "h", TRUE>>}

ReplayResults == {ResultOf("c1", kind) : kind \in ReplayKinds}

\* the stored record the results are for
ReplayRecords ==
    {[status |-> "processing", images |-> images, videos |-> videos,
      objects_3d |-> <<>>, has_alpha |-> FALSE, orientation |-> ""] :
        images \in {<<>>, <<Media(KOriginal, "a"), Media(KOriginal2, "b")>>},
        videos \in {<<>>, <<Media(KOriginal, "v")>>}}

InitReplay ==
    /\ InitService
    /\ merged = NoMerge
    /\ query = NoQuery
    /\ InitMutex
    /\ replay \in {[NoReplay EXCEPT !.left = content, !.right = content] :
                        content \in ReplayRecords}

\* processMediaResult on a record no other call touches: FindOne,
\* updateOps, UpdateOne
ApplyResult(content, result) == ApplyOps(content, UpdateOps(result, content))

ApplyLeft(result) ==
    /\ replay.nLeft < MaxReplay
    /\ replay' = [replay EXCEPT !.left = ApplyResult(@, result),
                                !.doneLeft = @ \cup {result},
                                !.nLeft = @ + 1]
    /\ UNCHANGED <<db, tracker, disp, hand, published, ledger, delivered, updates, merged, query, mutex, callers>>

ApplyRight(result) ==
    /\ replay.nRight < MaxReplay
    /\ replay' = [replay EXCEPT !.right = ApplyResult(@, result),
                                !.doneRight = @ \cup {result},
                                !.nRight = @ + 1]
    /\ UNCHANGED <<db, tracker, disp, hand, published, ledger, delivered, updates, merged, query, mutex, callers>>

NextReplay == \E result \in ReplayResults : ApplyLeft(result) \/ ApplyRight(result)

SpecReplay == InitReplay /\ [][NextReplay]_vars

\* ============================================================== properties
\* the steps of TrackProcessingStart and of TrackProcessingComplete
TrackerStartStep(d) == DispatchStart(d) \/ TrackStartFind(d) \/ TrackStartUpdate(d)

TrackerCompleteStep ==
    \/ \E d \in Dispatchers : Compensate(d) \/ CompensateFind(d) \/ CompensateUpdate(d)
    \/ CompletionStep

\* a TrackProcessingComplete call for contentID is past its locked section
\* and has not returned
CompletionPending(contentID) ==
    \/ \E h \in Handlers : /\ hand[h].pc \in {"tc_find", "tc_update"}
                           /\ hand[h].result.ContentID = contentID
    \/ \E d \in 1..Len(disp) : /\ disp[d].pc \in {"comp_find", "comp_update"}
                               /\ disp[d].id = contentID

\* TrackProcessingStart has returned in dispatcher d
StartReturned(d) == disp[d].pc \notin {"start", "ts_find", "ts_update"}

OriginalImages(content) == Count(SelectSeq(content.images, IsOriginal))
OriginalVideos(content) == Count(SelectSeq(content.videos, IsOriginal))
AlphaVideos(content) == Count(SelectSeq(content.videos, IsAlphaVideo))

\* C1: a step of TrackProcessingStart changes a persisted status only from
\* draft to processing, a step of TrackProcessingComplete only from
\* processing to processed; any other status is left as it is.
C1_TrackerTransitions ==
    [][/\ (\E d \in Dispatchers : TrackerStartStep(d)) =>
            \A id \in DOMAIN db :
                db'[id].status # db[id].status =>
                    db[id].status = "draft" /\ db'[id].status = "processing"
       /\ TrackerCompleteStep =>
            \A id \in DOMAIN db :
                db'[id].status # db[id].status =>
                    db[id].status = "processing" /\ db'[id].status = "processed"]_vars

\* a draft record went to processing and then to processed with no client
\* writing its status
C1_Witness ==
    \E d \in 1..Len(disp) :
        /\ disp[d].content.status = "draft"
        /\ updates = 0
        /\ db[disp[d].id].status = "processed"

\* the history of a dispatch that nothing disturbs: the count registered is
\* n, the status is processing while fewer than n completions were
\* registered, and processed once the n-th has returned
CountsDown(d, n) ==
    LET id == disp[d].id
    IN  /\ id \in DOMAIN ledger
        /\ ledger[id].registered = n
        /\ ledger[id].completed <= n
        /\ ledger[id].completed < n =>
                /\ id \in DOMAIN tracker
                /\ tracker[id] = n - ledger[id].completed
                /\ StartReturned(d) => db[id].status = "processing"
        /\ ledger[id].completed = n =>
                /\ id \notin DOMAIN tracker
                /\ ~CompletionPending(id) => db[id].status = "processed"

\* C2: a draft record with n >= 1 original images and no original video is
\* registered with exactly n; its status is processing after fewer than n
\* completions and processed after the n-th.
C2_ImagesCountDown ==
    \A d \in 1..Len(disp) :
        (/\ disp[d].content.status = "draft"
         /\ OriginalImages(disp[d].content) >= 1
         /\ OriginalVideos(disp[d].content) = 0
         /\ updates = 0
         /\ disp[d].pc # "start")
        => CountsDown(d, OriginalImages(disp[d].content))

C2_Witness ==
    \E d \in 1..Len(disp) :
        /\ disp[d].content.status = "draft"
        /\ OriginalImages(disp[d].content) = 2
        /\ disp[d].content.videos = <<>>
        /\ updates = 0
        /\ disp[d].id \in DOMAIN ledger
        /\ ledger[disp[d].id].completed = 2
        /\ db[disp[d].id].status = "processed"
        /\ Len(db[disp[d].id].images) = 3

\* C3: a draft record with exactly one original video and no mask is
\* registered with 2 tasks and is processed after 2 completions, whether
\* they report success or failure.
C3_VideoCountDown ==
    \A d \in 1..Len(disp) :
        (/\ disp[d].content.status = "draft"
         /\ OriginalImages(disp[d].content) = 0
         /\ OriginalVideos(disp[d].content) = 1
         /\ AlphaVideos(disp[d].content) = 0
         /\ updates = 0
         /\ disp[d].pc # "start")
        => CountsDown(d, 2)

C3_Witness ==
    \E d \in 1..Len(disp) :
        /\ disp[d].content.status = "draft"
        /\ OriginalImages(disp[d].content) = 0
        /\ OriginalVideos(disp[d].content) = 1
        /\ AlphaVideos(disp[d].content) = 0
        /\ updates = 0
        /\ delivered = 2
        /\ disp[d].id \in DOMAIN ledger
        /\ ledger[disp[d].id].completed = 2
        /\ db[disp[d].id].status = "processed"
        /\ Len(db[disp[d].id].videos) = 2

\* C4: a draft record with one original video and one mask video is
\* registered with 3 tasks, stays processing after one and after two
\* completions and is processed when the third is registered.
C4_MaskedVideoCountDown ==
    \A d \in 1..Len(disp) :
        (/\ disp[d].content.status = "draft"
         /\ OriginalImages(disp[d].content) = 0
         /\ OriginalVideos(disp[d].content) = 1
         /\ AlphaVideos(disp[d].content) = 1
         /\ updates = 0
         /\ disp[d].pc # "start")
        => CountsDown(d, 3)

C4_Witness ==
    \E d \in 1..Len(disp) :
        /\ disp[d].content.status = "draft"
        /\ OriginalVideos(disp[d].content) = 1
        /\ AlphaVideos(disp[d].content) = 1
        /\ updates = 0
        /\ delivered = 3
        /\ disp[d].id \in DOMAIN ledger
        /\ ledger[disp[d].id].completed = 3
        /\ db[disp[d].id].status = "processed"

\* a step of dispatcher d, whatever it is
DispatcherStepOf(d) ==
    \/ TrackerStartStep(d)
    \/ PublishImage(d)
    \/ PublishVideo(d)
    \/ Compensate(d)
    \/ CompensateFind(d)
    \/ CompensateUpdate(d)

\* no image and no video has a key that starts with original and a URL
NoQualifyingOriginals(content) ==
    /\ \A i \in 1..Len(content.images) :
            ~(HasPrefix(content.images[i].k, KOriginal) /\ content.images[i].v # "")
    /\ \A i \in 1..Len(content.videos) :
            ~(HasPrefix(content.videos[i].k, KOriginal) /\ content.videos[i].v # "")

\* C5: for a record with no qualifying original media, no step of
\* ProcessMediaForContent publishes a message, touches the tracker table or
\* writes the record, and its first step is its last.
C5_NothingToProcess ==
    [][\A d \in Dispatchers :
        (d <= Len(disp) /\ NoQualifyingOriginals(disp[d].content) /\ DispatcherStepOf(d))
        => /\ UNCHANGED <<db, tracker, published>>
           /\ disp'[d].pc = "done"]_vars

\* the dispatch of a record that holds media, none of it a qualifying
\* original, has ended
C5_Witness ==
    \E d \in 1..Len(disp) :
        /\ NoQualifyingOriginals(disp[d].content)
        /\ Len(disp[d].content.videos) > 0
        /\ Len(disp[d].content.images) > 0
        /\ disp[d].pc = "done"
        /\ tracker = <<>>
        /\ published = <<>>

\* C6: the locked section of TrackProcessingComplete, when it finds no entry
\* for the id, leaves the tracker table as it is and returns: the caller goes
\* on, the status is neither read nor written.
C6_UntrackedCompletion ==
    [][/\ \A h \in Handlers :
            (HandlerComplete(h) /\ hand[h].result.ContentID \notin DOMAIN tracker)
            => /\ UNCHANGED <<tracker, db>>
               /\ hand'[h] = IdleHandler("ok")
       /\ \A d \in Dispatchers :
            (Compensate(d) /\ disp[d].id \notin DOMAIN tracker)
            => /\ UNCHANGED <<tracker, db>>
               /\ disp'[d] = AfterCompensation(disp[d])]_vars

\* more results were applied for an image record than tasks were
\* registered: the later calls found no entry
C6_Witness ==
    \E d \in 1..Len(disp) :
        /\ disp[d].content.videos = <<>>
        /\ disp[d].pc = "done"
        /\ disp[d].id \in DOMAIN ledger
        /\ disp[d].id \notin DOMAIN tracker
        /\ \A h \in Handlers : hand[h].pc = "idle" /\ hand[h].ret = "ok"
        /\ delivered > ledger[disp[d].id].completed

MediaFields(d) ==
    [id \in DOMAIN d |-> <<d[id].images, d[id].videos, d[id].objects_3d,
                           d[id].orientation, d[id].has_alpha>>]

\* C8: a valid result with success=false goes to TrackProcessingComplete
\* alone: it takes one from the count of a tracked id (removing the entry
\* at zero), changes no media list, orientation or has_alpha, and
\* processMediaResult returns nil.
C8_FailureResult ==
    [][\A h \in Handlers :
        /\ (hand[h].pc = "idle" /\ hand'[h].pc # "idle" /\ ~hand'[h].result.Success)
            => hand'[h].pc = "tc_lock" /\ db' = db
        /\ (hand[h].pc # "idle" /\ ~hand[h].result.Success /\ hand'[h] # hand[h])
            => /\ MediaFields(db') = MediaFields(db)
               /\ hand'[h].pc \in {"tc_find", "tc_update", "idle"}
               /\ hand'[h].pc = "idle" => hand'[h].ret = "ok"
               /\ (hand[h].pc = "tc_lock" /\ hand[h].result.ContentID \in DOMAIN tracker)
                    => LET id == hand[h].result.ContentID
                       IN  IF tracker[id] > 1
                           THEN tracker' = [tracker EXCEPT ![id] = tracker[id] - 1]
                           ELSE tracker' = TrackerDelete(tracker, id)]_vars

\* a failure result that carried an orientation and has_alpha took the last
\* task of a record whose feedback fields are still unset
C8_Witness ==
    \E h \in Handlers :
        /\ hand[h].pc = "tc_find"
        /\ ~hand[h].result.Success
        /\ hand[h].result.Orientation # ""
        /\ hand[h].result.ContentID \in DOMAIN db
        /\ db[hand[h].result.ContentID].orientation = ""
        /\ ~db[hand[h].result.ContentID].has_alpha

\* C9: while the persisted status is processing or processed, no step of
\* TrackProcessingStart writes the record.
C9_StartLeavesNonDraft ==
    [][\A d \in Dispatchers :
        (/\ TrackerStartStep(d)
         /\ CountMediaTasks(disp[d].content) > 0
         /\ db[disp[d].id].status \in {"processing", "processed"})
        => db' = db]_vars

\* TrackProcessingStart has returned for a record created as processed or
\* processing, with tasks registered and the status as it was
C9_Witness ==
    \E d \in 1..Len(disp) :
        /\ StartReturned(d)
        /\ disp[d].id \in DOMAIN tracker
        /\ disp[d].content.status \in {"processing", "processed"}
        /\ db[disp[d].id].status = disp[d].content.status

PairsOf(media) == {media[i] : i \in 1..Len(media)}

NoDuplicateKeys(media) ==
    \A i, j \in 1..Len(media) : media[i].k = media[j].k => i = j

\* C10: merging [{original,a}] with [{compressed,b}] yields exactly those
\* two pairs; and for every existing list and every update, merging the
\* update a second time gives the same set of pairs as merging it once,
\* with no key twice.
C10_MergeIdempotent ==
    /\ (/\ merged.n >= 1
        /\ merged.existingMedia = <<Media(KOriginal, "a")>>
        /\ merged.newMedia = <<Media(KCompressed, "b")>>)
        => /\ PairsOf(merged.once) = {Media(KOriginal, "a"), Media(KCompressed, "b")}
           /\ Len(merged.once) = 2
    /\ merged.n = 2
        => /\ PairsOf(merged.twice) = PairsOf(merged.once)
           /\ NoDuplicateKeys(merged.once)
           /\ NoDuplicateKeys(merged.twice)

\* the first application was of one (key, value) pair
PairApplied == merged.n >= 1 /\ Len(merged.newMedia) = 1

\* C11: applied to any existing list and one (key, value) pair, the merger
\* returns a list where the key has the value, every other pair of the
\* existing list is kept, no other key appears, and no key occurs twice.
C11_MergerContract ==
    PairApplied =>
        LET key == merged.newMedia[1].k
            value == merged.newMedia[1].v
        IN  /\ \E i \in 1..Len(merged.once) : merged.once[i] = Media(key, value)
            /\ \A i \in 1..Len(merged.once) :
                    merged.once[i].k = key => merged.once[i].v = value
            /\ \A i \in 1..Len(merged.existingMedia) :
                    merged.existingMedia[i].k # key =>
                        merged.existingMedia[i] \in PairsOf(merged.once)
            /\ KeysOf(merged.once) \subseteq KeysOf(merged.existingMedia) \cup {key}
            /\ NoDuplicateKeys(merged.once)

\* C12: mergeMediaByKey returns the new list as it is when the existing list
\* is empty, the existing list as it is when the new list is empty, and on a
\* key of both lists every entry of the result carries a value of the new list.
C12_MergeEdgeCases ==
    (merged.n >= 1 /\ merged.via = "mergeMediaByKey") =>
        /\ merged.existingMedia = <<>> => merged.once = merged.newMedia
        /\ merged.newMedia = <<>> => merged.once = merged.existingMedia
        /\ \A k \in KeysOf(merged.existingMedia) \cap KeysOf(merged.newMedia) :
                /\ k \in KeysOf(merged.once)
                /\ \A i \in 1..Len(merged.once) :
                        merged.once[i].k = k => merged.once[i] \in PairsOf(merged.newMedia)

\* a key of both lists, with different values, has been merged
C12_Witness ==
    /\ merged.n >= 1
    /\ merged.via = "mergeMediaByKey"
    /\ merged.existingMedia = <<Media(KOriginal, "a"), Media(KCompressed, "b")>>
    /\ merged.newMedia = <<Media(KOriginal, "b")>>
    /\ PairsOf(merged.once) = {Media(KOriginal, "b"), Media(KCompressed, "b")}

\* C13: whenever the same successful results were applied to a record, one
\* after another, in two orders and any number of times each, the two
\* records hold the same value under every media key.
C13_OrderIndependent ==
    replay.doneLeft = replay.doneRight =>
        /\ PairsOf(replay.left.images) = PairsOf(replay.right.images)
        /\ PairsOf(replay.left.videos) = PairsOf(replay.right.videos)
        /\ PairsOf(replay.left.objects_3d) = PairsOf(replay.right.objects_3d)

\* C14: whatever the interleaving of the reads and writes of concurrent
\* result handlers and client updates, no write to a record removes a media
\* key that another operation has stored: every key stored before the write
\* is stored after it.
C14_NoLostEntry ==
    [][\A id \in DOMAIN db :
        /\ KeysOf(db[id].images) \subseteq KeysOf(db'[id].images)
        /\ KeysOf(db[id].videos) \subseteq KeysOf(db'[id].videos)
        /\ KeysOf(db[id].objects_3d) \subseteq KeysOf(db'[id].objects_3d)]_vars

\* C15: a result with an empty content id, or with no produced URL at all,
\* is rejected on receipt whatever its success flag: the call returns an
\* error at once, with the stored records and the tracker table as they
\* were, and no handler ever works on such a result.
C15_InvalidRejected ==
    [][/\ \A h \in Handlers : hand[h].pc # "idle" => ~MissingFields(hand[h].result)
       /\ \A h \in Handlers : \A result \in InvalidResults :
            Deliver(h, result) =>
                /\ hand'[h] = IdleHandler("err")
                /\ UNCHANGED <<db, tracker>>]_vars

\* the first result received was rejected while the record it names was
\* tracked, and its count is as registered
C15_Witness ==
    /\ delivered = 1
    /\ hand[1] = IdleHandler("err")
    /\ "c1" \in DOMAIN tracker
    /\ "c1" \in DOMAIN ledger
    /\ tracker["c1"] = ledger["c1"].registered
    /\ db["c1"].status = "processing"

\* C16: between the locked sections of the tracker, every entry of the
\* table holds a count greater than zero: an entry that took its last
\* completion is not in the table.
C16_PositiveCounts ==
    /\ \A id \in DOMAIN tracker : tracker[id] > 0
    /\ \A id \in DOMAIN ledger :
            ledger[id].completed >= ledger[id].registered => id \notin DOMAIN tracker

\* an entry registered with three tasks took its third completion and is gone
C16_Witness ==
    \E id \in DOMAIN ledger :
        /\ ledger[id].registered = 3
        /\ ledger[id].completed = 3
        /\ id \notin DOMAIN tracker

\* the entry registered for contentID was removed by its last completion
EntryRemoved(contentID) ==
    /\ contentID \in DOMAIN ledger
    /\ ledger[contentID].completed = ledger[contentID].registered
    /\ contentID \notin DOMAIN tracker

\* C17: once the entry of an id was removed by its n-th completion, the
\* locked section of every further TrackProcessingComplete for the id, from
\* a result handler or from the compensating loop, changes neither the
\* tracker table nor a stored record, and the call returns nil at once.
C17_CompletionAfterRemoval ==
    [][/\ \A h \in Handlers :
            (HandlerComplete(h) /\ EntryRemoved(hand[h].result.ContentID))
            => /\ tracker' = tracker
               /\ db' = db
               /\ ledger' = ledger
               /\ hand'[h].pc = "idle" /\ hand'[h].ret = "ok"
       /\ \A d \in Dispatchers :
            (Compensate(d) /\ EntryRemoved(disp[d].id))
            => /\ tracker' = tracker
               /\ db' = db
               /\ ledger' = ledger
               /\ disp'[d].pc \in {"comp", "done"}
       /\ \A id \in DOMAIN tracker' : tracker'[id] >= 0]_vars

\* a record with two tasks, its request published, took three results: the
\* third found the entry removed and the status processed
C17_Witness ==
    /\ "c1" \in DOMAIN ledger
    /\ ledger["c1"].registered = 2
    /\ EntryRemoved("c1")
    /\ delivered = 3
    /\ \E i \in 1..Len(published) : published[i].topic = "createexperience"
    /\ \A h \in Handlers : hand[h].pc = "idle" /\ hand[h].ret = "ok"
    /\ db["c1"].status = "processed"

\* the calls for contentID that are past the locked section, having removed
\* the entry
Finishers(contentID) ==
    Cardinality({h \in Handlers : /\ hand[h].pc \in {"tc_find", "tc_update"}
                                  /\ hand[h].result.ContentID = contentID})
    + Cardinality({d \in 1..Len(disp) : /\ disp[d].pc \in {"comp_find", "comp_update"}
                                          /\ disp[d].id = contentID})

\* C18: with completions of one id running concurrently, the count is the
\* registered one less the completions made (none is lost), and exactly one
\* call, the one that takes the count to zero, removes the entry and goes on
\* to the status transition.
C18_ConcurrentCompletions ==
    \A id \in DOMAIN ledger :
        /\ id \in DOMAIN tracker =>
                /\ tracker[id] = ledger[id].registered - ledger[id].completed
                /\ ledger[id].removed = 0
        /\ id \notin DOMAIN tracker =>
                /\ ledger[id].completed = ledger[id].registered
                /\ ledger[id].removed = 1
        /\ Finishers(id) <= ledger[id].removed

\* two handlers ran at once on a record with two tasks: the second took the
\* count from 2 to 1 and returned, the first took it to zero and is about to
\* read the status
C18_Witness ==
    /\ "c1" \in DOMAIN ledger
    /\ ledger["c1"].registered = 2
    /\ ledger["c1"].completed = 2
    /\ ledger["c1"].removed = 1
    /\ delivered = 2
    /\ hand[1].pc = "tc_find"
    /\ hand[2] = IdleHandler("ok")
    /\ \A d \in 1..Len(disp) : disp[d].pc = "done"
    /\ \E i \in 1..Len(published) : published[i].topic = "createexperience"

\* C19: GetProcessingStatus answers ("processing", remaining count) for an
\* id that has a tracker entry, whatever status its record stores; for an id
\* without entry whose record exists it answers the stored status with
\* count 0.
C19_QueryStatus ==
    [][/\ \A contentID \in QueryIds :
            (QueryLocked(contentID) /\ contentID \in DOMAIN tracker)
            => /\ query'.pc = "idle"
               /\ query'.status = "processing"
               /\ query'.remaining = tracker[contentID]
               /\ ~query'.err
       /\ (QueryFind /\ query.id \in DOMAIN db)
            => /\ query'.pc = "idle"
               /\ query'.status = db[query.id].status
               /\ query'.remaining = 0
               /\ ~query'.err]_vars

\* a query about a tracked record whose stored status is processed was
\* answered with processing and the count of the entry
C19_Witness ==
    /\ query.pc = "idle"
    /\ query.id = "c1"
    /\ query.status = "processing"
    /\ "c1" \in DOMAIN tracker
    /\ query.remaining = tracker["c1"]
    /\ db["c1"].status = "processed"

\* the publication of the createexperience request of dispatcher d has just
\* failed: the compensating loop is about to make its first call
PublishFailed(d) ==
    /\ d <= Len(disp)
    /\ disp[d].pc = "comp"
    /\ disp[d].k = CompensationCalls

\* the record of dispatcher d is no longer tracked and no longer processing
Unstuck(d) ==
    /\ d <= Len(disp)
    /\ disp[d].id \notin DOMAIN tracker
    /\ db[disp[d].id].status # "processing"

\* C20: whenever the publication of the createexperience request of a
\* record fails, the three compensating completions lead to a state where
\* the tracker entry of the record is removed and its status is no longer
\* processing.
C20_CompensationUnsticks ==
    \A d \in Dispatchers : PublishFailed(d) ~> Unstuck(d)

\* a publish of dispatcher d to the compressimage topic returned an error
ImagePublishFailed(d) ==
    /\ d <= Len(disp)
    /\ \E i \in 1..Len(disp[d].tried) :
            /\ disp[d].tried[i].request.topic = "compressimage"
            /\ ~disp[d].tried[i].ok

\* C21: once a publish of an image-compression request has failed, and with
\* no result arriving, the tracker entry of the record stays and the stored
\* status stays processing in every later state.
C21_ImageFailureStalls ==
    \A d \in Dispatchers :
        ImagePublishFailed(d)
        => /\ disp[d].id \in DOMAIN tracker
           /\ db[disp[d].id].status = "processing"

\* C22 (as the code has it): when the UpdateOne that applies a successful
\* result fails, processMediaResult returns the error at once: the stored
\* record is unchanged, TrackProcessingComplete is not called, so the
\* tracker count is not decremented, and nothing is published or dispatched
\* again.
C22_WriteFailureReturns ==
    [][\A h \in Handlers :
            HandlerUpdateFails(h)
            => /\ db' = db
               /\ tracker' = tracker
               /\ ledger' = ledger
               /\ hand'[h] = IdleHandler("err")
               /\ disp' = disp
               /\ published' = published]_vars

\* the only result received for a tracked record met a failed write: the
\* handler returned the error, the count is as registered and the record
\* holds no processed entry
C22_Witness ==
    /\ delivered = 1
    /\ hand[1] = IdleHandler("err")
    /\ "c1" \in DOMAIN tracker
    /\ "c1" \in DOMAIN ledger
    /\ ledger["c1"].completed = 0
    /\ tracker["c1"] = ledger["c1"].registered
    /\ KCompressed \notin KeysOf(db["c1"].images) \cup KeysOf(db["c1"].videos)
    /\ KHls \notin KeysOf(db["c1"].videos)
    /\ \A d \in 1..Len(disp) : disp[d].pc = "done"

\* C22 (as stated): when the UpdateOne that applies a successful result
\* fails, the stored record is unchanged and the handler still goes on to
\* TrackProcessingComplete, which decrements the count.
C22_WriteFailureStillCounts ==
    [][\A h \in Handlers :
            HandlerUpdateFails(h)
            => /\ db' = db
               /\ hand'[h].pc = "tc_lock"]_vars

\* C23: the locked section of TrackProcessingStart with a count n > 0 sets
\* the tracker entry of the id to n without looking at the record, so also
\* for a record whose stored status is not draft; for such a record the
\* status test that follows ends the call with the entry in place and the
\* record as it was.
C23_StartRegistersAnyStatus ==
    [][\A d \in Dispatchers :
        /\ (DispatchStart(d) /\ CountMediaTasks(disp[d].content) > 0)
            => /\ disp[d].id \in DOMAIN tracker'
               /\ tracker'[disp[d].id] = CountMediaTasks(disp[d].content)
               /\ db' = db
        /\ (TrackStartFind(d) /\ db[disp[d].id].status # "draft")
            => /\ tracker' = tracker
               /\ db' = db
               /\ disp'[d].pc = "pub_img"]_vars

\* TrackProcessingStart has returned for a record stored as processed: its
\* two tasks are registered and no result was received yet
C23_Witness ==
    /\ delivered = 0
    /\ Len(disp) = 1
    /\ StartReturned(1)
    /\ "c1" \in DOMAIN tracker
    /\ tracker["c1"] = 2
    /\ CountMediaTasks(disp[1].content) = 2
    /\ db["c1"].status = "processed"

\* the results received whose handler has not yet passed the locked section
\* of TrackProcessingComplete
InFlight ==
    Cardinality({h \in Handlers : hand[h].pc \in {"find", "update", "tc_lock"}})

\* the createexperience request of the record was published
VideoPublished(contentID) ==
    \E i \in 1..Len(published) :
        published[i].topic = "createexperience" /\ published[i].id = contentID

\* C24: with one result message delivered again and again, every delivery
\* that reaches TrackProcessingComplete decrements the count of the record
\* once, until the entry is removed: nothing tells a redelivery from a new
\* result.
C24_EveryDeliveryCounts ==
    \A id \in DOMAIN ledger :
        VideoPublished(id)
        => /\ ledger[id].completed = IF delivered - InFlight <= ledger[id].registered
                                     THEN delivered - InFlight
                                     ELSE ledger[id].registered
           /\ (delivered - InFlight < ledger[id].registered) => id \in DOMAIN tracker

\* the packaging result of a video was delivered twice: the status is
\* processed, and the compression task of the same request has produced no
\* result
C24_Witness ==
    /\ "c1" \in DOMAIN ledger
    /\ ledger["c1"].registered = 2
    /\ VideoPublished("c1")
    /\ delivered = 2
    /\ \A h \in Handlers : hand[h].pc = "idle"
    /\ db["c1"].status = "processed"
    /\ KHls \in KeysOf(db["c1"].videos)
    /\ KCompressed \notin KeysOf(db["c1"].videos)

\* C25: when a dispatch is about to make its first publish, TrackProcessingStart
\* has returned: the tracker entry of the record holds the task count and
\* the stored status is no longer draft. Hence a dispatch that has published
\* has registered, and a result is handled for a registered record only.
C25_RegisteredBeforePublish ==
    /\ \A d \in 1..Len(disp) :
        /\ (disp[d].pc \in {"pub_img", "pub_vid"} /\ disp[d].tried = <<>>)
            => /\ disp[d].id \in DOMAIN tracker
               /\ tracker[disp[d].id] = CountMediaTasks(disp[d].content)
               /\ db[disp[d].id].status # "draft"
        /\ disp[d].tried # <<>>
            => /\ StartReturned(d)
               /\ disp[d].id \in DOMAIN ledger
    /\ \A h \in Handlers :
        hand[h].pc # "idle" => hand[h].result.ContentID \in DOMAIN ledger

\* the first result of a record is being applied: its request was
\* published after the registration of the three tasks, none completed yet
C25_Witness ==
    /\ delivered = 1
    /\ hand[1].pc = "update"
    /\ hand[1].result.ContentID = "c1"
    /\ "c1" \in DOMAIN tracker
    /\ "c1" \in DOMAIN ledger
    /\ tracker["c1"] = 3
    /\ ledger["c1"].completed = 0
    /\ disp[1].tried # <<>>

\* the stored record holds what result writes: applying result to it
\* changes no media list
ResultStored(content, result) ==
    /\ PairsOf(ApplyResult(content, result).images) = PairsOf(content.images)
    /\ PairsOf(ApplyResult(content, result).videos) = PairsOf(content.videos)
    /\ PairsOf(ApplyResult(content, result).objects_3d) = PairsOf(content.objects_3d)

\* C26: when the handler of a successful result writes the status
\* processed, the media entry of that result is in the stored record.
C26_EntryStoredWhenProcessed ==
    [][\A h \in Handlers :
            (/\ HandlerTrackUpdate(h)
             /\ hand[h].result.Success
             /\ db[hand[h].result.ContentID].status = "processing")
            => ResultStored(db[hand[h].result.ContentID], hand[h].result)]_vars

\* C27: the status write of TrackProcessingStart is made after a read that
\* saw draft, the one of TrackProcessingComplete after a read that saw
\* processing. When the stored status is no longer the one read, because
\* another writer changed it in between, the write leaves the record as the
\* other writer made it.
C27_OtherWriterKept ==
    [][/\ \A d \in Dispatchers :
            /\ (TrackStartUpdate(d) /\ db[disp[d].id].status # "draft") => db' = db
            /\ (CompensateUpdate(d) /\ db[disp[d].id].status # "processing") => db' = db
       /\ \A h \in Handlers :
            (HandlerTrackUpdate(h) /\ db[hand[h].result.ContentID].status # "processing")
            => db' = db]_vars

\* TrackProcessingComplete has removed the entry and read the status
\* processing; before its write a client has set the status archived
C27_Witness ==
    /\ updates = 1
    /\ hand[1].pc = "tc_update"
    /\ hand[1].result.ContentID = "c1"
    /\ db["c1"].status = "archived"
    /\ "c1" \notin DOMAIN tracker

IsImageAttempt(a) == a.request.topic = "compressimage"

\* the image loop of dispatcher d has ended
ImagesDone(d) == disp[d].pc \notin {"start", "ts_find", "ts_update", "pub_img"}

\* C28: the publish calls of a dispatch to the compressimage topic are, in
\* list order, one for each image entry with a key starting with original
\* and a non-empty URL, each with that URL and the content id, and none
\* else; when the image loop has ended their number is the task count the
\* classifier gives for the images of the record.
C28_OnePublishPerImage ==
    \A d \in 1..Len(disp) :
        LET qualifying == SelectSeq(disp[d].content.images, IsOriginal)
            calls == SelectSeq(disp[d].tried, IsImageAttempt)
        IN  /\ Len(calls) <= Len(qualifying)
            /\ \A i \in 1..Len(calls) :
                    calls[i].request = ImageRequest(disp[d].id, qualifying[i].v)
            /\ ImagesDone(d) =>
                    /\ Len(calls) = Len(qualifying)
                    /\ Len(calls) = CountMediaTasks([disp[d].content EXCEPT !.videos = <<>>])

\* a record with a compressed image, an original image without URL and an
\* original image with URL: one publish was attempted, for the last one
C28_Witness ==
    /\ Len(disp) = 1
    /\ ImagesDone(1)
    /\ disp[1].content.images
            = <<Media(KCompressed, "c"), Media(KOriginal2, ""), Media(KOriginal, "a")>>
    /\ SelectSeq(disp[1].tried, IsImageAttempt)
            = <<Attempt(ImageRequest("c1", "a"), FALSE)>>

IsVideoAttempt(a) == a.request.topic = "createexperience"

\* a video entry with the key mask and a URL
HasMaskKey(m) == m.k = KMask /\ m.v # ""

\* the video part of dispatcher d has made its publish call, if any
VideoDone(d) == disp[d].pc \in {"comp", "comp_find", "comp_update", "done"}

\* C29: a dispatch makes at most one publish call to the createexperience
\* topic, and makes it when the record has a video entry with a key starting
\* with original (and a URL): the call carries the URL of the first such
\* entry and, as alpha URL, the URL of the first entry with the key mask
\* when there is one, and no alpha URL when there is none.
C29_OnePublishPerVideoRecord ==
    \A d \in 1..Len(disp) :
        LET originals == SelectSeq(disp[d].content.videos, IsOriginal)
            masks == SelectSeq(disp[d].content.videos, HasMaskKey)
            calls == SelectSeq(disp[d].tried, IsVideoAttempt)
        IN  /\ Len(calls) <= 1
            /\ calls # <<>> => originals # <<>>
            /\ (VideoDone(d) /\ originals # <<>>)
                => /\ Len(calls) = 1
                   /\ calls[1].request =
                        [topic |-> "createexperience", id |-> disp[d].id,
                         url |-> originals[1].v,
                         alpha |-> IF masks # <<>> THEN masks[1].v ELSE ""]

\* the positions of the image entries with a key starting with original and
\* a non-empty URL
QualifyingImages(content) ==
    {i \in 1..Len(content.images) :
        HasPrefix(content.images[i].k, KOriginal) /\ content.images[i].v # ""}

\* the count TrackProcessingStart was given for the record of dispatcher d,
\* 0 when it was not called
Registered(d) ==
    IF disp[d].id \in DOMAIN ledger THEN ledger[disp[d].id].registered ELSE 0

\* C30: the count that the classifier gives a record is one for each image
\* entry with a key starting with original and a non-empty URL, plus what it
\* gives the videos of the record alone: other image entries and 3D objects
\* of any key add nothing.
C30_ImageAndObjectTasks ==
    \A d \in 1..Len(disp) :
        disp[d].pc # "start"
        => Registered(d) = Cardinality(QualifyingImages(disp[d].content))
                + CountMediaTasks([disp[d].content EXCEPT !.images = <<>>,
                                                          !.objects_3d = <<>>])

\* a record of a compressed image, an original image and an original 3D
\* object was registered with one task
C30_Witness ==
    /\ Len(disp) = 1
    /\ disp[1].pc # "start"
    /\ disp[1].content.images = <<Media(KCompressed, "c"), Media(KOriginal, "a")>>
    /\ disp[1].content.videos = <<>>
    /\ disp[1].content.objects_3d = <<Media(KOriginal, "o")>>
    /\ Registered(1) = 1
    /\ "c1" \in DOMAIN tracker

\* the positions of the video entries with a key starting with original and
\* a non-empty URL
OriginalVideoEntries(videos) ==
    {i \in 1..Len(videos) : HasPrefix(videos[i].k, KOriginal) /\ videos[i].v # ""}

\* the positions of the alpha/mask counterparts: key mask or original_alpha
AlphaCounterparts(videos) ==
    {i \in 1..Len(videos) : videos[i].k = KMask \/ videos[i].k = KOriginalAlpha}

\* C31: the video part of the count that the classifier gives a record is 0
\* when no video entry has a key starting with original and a non-empty
\* URL; otherwise it is twice the number of such entries that are not
\* alpha/mask counterparts, plus 1 when an alpha/mask counterpart exists.
C31_VideoTasks ==
    \A d \in 1..Len(disp) :
        LET videos == disp[d].content.videos
            videoPart ==
                IF OriginalVideoEntries(videos) = {} THEN 0
                ELSE 2 * Cardinality(OriginalVideoEntries(videos)
                                        \ AlphaCounterparts(videos))
                     + (IF AlphaCounterparts(videos) # {} THEN 1 ELSE 0)
        IN  disp[d].pc # "start"
            => Registered(d)
                = Cardinality(QualifyingImages(disp[d].content)) + videoPart

\* the media list of content that results of media kind mediaType go to
ListOf(content, mediaType) ==
    CASE mediaType = "image" -> content.images
      [] mediaType = "video" -> content.videos
      [] OTHER -> content.objects_3d

\* the (key, URL) pairs that result is to leave in the list of its kind: the
\* key of the sub-type with the URL carried for it (3D objects are stored
\* under the key processed)
Produced(result) ==
    CASE result.MediaType = "image" -> {Media(KCompressed, result.ProcessedURL)}
      [] result.MediaType = "object_3d" -> {Media(KProcessed, result.ProcessedURL)}
      [] result.ProcessingType = "compressed" -> {Media(KCompressed, result.ProcessedURL)}
      [] result.ProcessingType = "alpha" -> {Media(KAlpha, result.ProcessedURL)}
      [] result.ProcessingType = "stitched" -> {Media(KStitched, result.ProcessedURL)}
      [] result.ProcessingType = "hls" ->
            {Media(KHls, result.HlsURL), Media(KDash, result.DashURL)}
      [] OTHER -> {Media(KDash, result.DashURL)}

\* C32: the write that applies a successful result leaves, in the stored
\* list of the result's media kind, the key of the result's sub-type with
\* the URL the result carries for it, and with no other URL.
C32_ResultStoredUnderKey ==
    [][\A h \in Handlers :
            HandlerUpdate(h)
            => \A m \in Produced(hand[h].result) :
                    m.v # ""
                    => LET list == ListOf(db'[hand[h].result.ContentID],
                                          hand[h].result.MediaType)
                       IN  /\ m \in PairsOf(list)
                           /\ \A i \in 1..Len(list) : list[i].k = m.k => list[i] = m]_vars

\* the original entries of an update list that are new to, or differ in URL
\* from, the stored list of the same media kind
ChangedOriginals(existingMedia, updateMedia) ==
    {m \in PairsOf(updateMedia) :
        HasPrefix(m.k, KOriginal) /\ m \notin PairsOf(existingMedia)}

\* C33: an UpdateMRContent request starts a dispatch exactly when an
\* original entry of some media kind is new or changed in its kind, and the
\* record handed to the dispatch holds, for each kind, those entries and no
\* other.
C33_RedispatchChangedOnly ==
    [][\A contentID \in RecordIds, body \in UpdateBodies :
            UpdateMRContent(contentID, body.images, body.videos, body.objects_3d,
                            body.status)
            => LET images == ChangedOriginals(db[contentID].images, body.images)
                   videos == ChangedOriginals(db[contentID].videos, body.videos)
                   objects == ChangedOriginals(db[contentID].objects_3d,
                                               body.objects_3d)
               IN  IF images = {} /\ videos = {} /\ objects = {}
                   THEN disp' = disp
                   ELSE /\ Len(disp') = Len(disp) + 1
                        /\ PairsOf(disp'[Len(disp')].content.images) = images
                        /\ PairsOf(disp'[Len(disp')].content.videos) = videos
                        /\ PairsOf(disp'[Len(disp')].content.objects_3d) = objects]_vars

\* C34: the write of a successful result stores the result's orientation
\* when it has one, whatever the record held, and leaves the stored
\* orientation alone when it has none; the write of a result with
\* has_alpha set leaves has_alpha true.
C34_FeedbackStored ==
    [][\A h \in Handlers :
            HandlerUpdate(h)
            => LET result == hand[h].result
                   before == db[result.ContentID]
                   after == db'[result.ContentID]
               IN  /\ result.Orientation # "" => after.orientation = result.Orientation
                   /\ result.Orientation = "" => after.orientation = before.orientation
                   /\ result.HasAlpha => after.has_alpha]_vars

\* two results with different orientations were both written, the one with
\* has_alpha set last, and the record holds the orientation of the last
C34_Witness ==
    \E h, g \in Handlers :
        /\ hand[h].pc = "tc_lock" /\ hand[g].pc = "tc_lock"
        /\ hand[h].result.Orientation = "portrait" /\ hand[h].result.HasAlpha
        /\ hand[g].result.Orientation = "landscape"
        /\ db[hand[h].result.ContentID].orientation = "portrait"
        /\ db[hand[h].result.ContentID].has_alpha

\* C38: no step of result ingestion takes the stored has_alpha of a
\* record from true to false.
C38_HasAlphaMonotone ==
    [][\A id \in DOMAIN db :
            db[id].has_alpha => id \in DOMAIN db' /\ db'[id].has_alpha]_vars

\* a result without has_alpha was written to a record whose has_alpha an
\* earlier result had set, and the record still has it
C38_Witness ==
    \E h \in Handlers :
        /\ hand[h].pc = "tc_lock"
        /\ hand[h].result.Success
        /\ ~hand[h].result.HasAlpha
        /\ db[hand[h].result.ContentID].has_alpha

\* C35: a tracker operation holds the mutex only between its Lock and its
\* Unlock, never while it waits, calls the store or has returned; the
\* holder is always at a statement that needs no store call; and whenever a
\* caller waits for the mutex, a step that needs the mutex only can be taken.
C35_MutexReleased ==
    /\ \A c \in Callers :
            callers[c].pc \in {"idle", "lock", "find", "update"} => mutex # c
    /\ mutex # 0 => mutex \in Callers /\ callers[mutex].pc \in {"locked", "unlock"}
    /\ (\E c \in Callers : callers[c].pc = "lock") => ENABLED MutexStep

\* one caller, in its second call, waits on the store for the update of the
\* record, while the other holds the mutex for another id
C35_Witness ==
    /\ callers[1].n = 2
    /\ callers[1].pc = "update"
    /\ callers[1].id = "c1"
    /\ callers[2].pc = "locked"
    /\ callers[2].id = "c9"
    /\ mutex = 2

\* C36: a successful result with every required field whose content id is
\* no object id is answered with an error on receipt, and one whose record
\* the store does not return is answered with an error by the read; neither
\* step changes a stored record or the tracker table, and the handler does
\* not go on to TrackProcessingComplete.
C36_UnloadableRejected ==
    [][\A h \in Handlers :
            /\ \A result \in UnloadableResults :
                    Deliver(h, result) /\ ~IsObjectIDHex(result.ContentID)
                    => hand'[h] = IdleHandler("err") /\ UNCHANGED <<db, tracker>>
            /\ /\ hand[h].pc = "find"
               /\ hand'[h] # hand[h]
               /\ \/ hand[h].result.ContentID \notin DOMAIN db
                  \/ HandlerFindFails(h)
               => hand'[h] = IdleHandler("err") /\ UNCHANGED <<db, tracker>>]_vars

\* with the record's two tasks registered, one handler has answered a
\* result with an error and the other reads the record of an id that has
\* none
C36_Witness ==
    /\ "c1" \in DOMAIN tracker
    /\ tracker["c1"] = 2
    /\ hand[2] = IdleHandler("err")
    /\ hand[1].pc = "find"
    /\ hand[1].result.ContentID = "c9"

\* the publish calls the record of dispatcher d calls for: one for each
\* qualifying image and one when there is an original video
Requests(d) ==
    Cardinality(QualifyingImages(disp[d].content))
    + (IF SelectSeq(disp[d].content.videos, IsOriginal) # <<>> THEN 1 ELSE 0)

OthersUntouched(contentID) ==
    \A other \in IsolationIds \ {contentID} :
        /\ other \in DOMAIN tracker <=> other \in DOMAIN tracker'
        /\ other \in DOMAIN tracker => tracker'[other] = tracker[other]
        /\ other \in DOMAIN db <=> other \in DOMAIN db'
        /\ other \in DOMAIN db
           => /\ db'[other].images = db[other].images
              /\ db'[other].videos = db[other].videos
              /\ db'[other].objects_3d = db[other].objects_3d
              /\ db'[other].status = db[other].status

\* C39: every step of a dispatch (TrackProcessingStart, publishing, the
\* compensating completions) and of a result handler (the record's read and
\* write, TrackProcessingComplete) for one content id leaves the tracker
\* entry, the media lists and the status of every other id unchanged.
C39_OtherIdsUntouched ==
    [][/\ \A d \in Dispatchers :
            d <= Len(disp) /\ DispatcherStepOf(d) => OthersUntouched(disp[d].id)
       /\ \A h \in Handlers :
            (\/ HandlerFind(h) \/ HandlerUpdate(h) \/ HandlerComplete(h)
             \/ HandlerTrackFind(h) \/ HandlerTrackUpdate(h))
            => OthersUntouched(hand[h].result.ContentID)]_vars

\* one record has had its result stored and its last task completed while
\* the other, dispatched too, still has both tasks pending
C39_Witness ==
    /\ "c1" \notin DOMAIN tracker
    /\ "c1" \in DOMAIN db
    /\ db["c1"].status = "processed"
    /\ Len(db["c1"].videos) = 2
    /\ "c9" \in DOMAIN tracker
    /\ tracker["c9"] = 2
    /\ db["c9"].status = "processing"
    /\ Len(db["c9"].videos) = 1

====
